---- MODULE Spec2Model ----
(***************************************************************************)
(* A model of langchain_vdms/vectorstores.py: the VDMS vector store client *)
(* (class VDMS), its helper class VDMS_Utils, and the replies of the VDMS  *)
(* server the client talks to through client.query(commands, blobs).       *)
(*                                                                         *)
(* Python values are represented as follows.                               *)
(*   - a dict is a function whose DOMAIN is the set of its keys;           *)
(*   - a list is a sequence;                                               *)
(*   - None, {} and a list value are the tagged strings NoneValue,         *)
(*     EmptyDict and ListValue (no metadata string of the model equals     *)
(*     them);                                                              *)
(*   - an embedding is a vector of dimension 1, i.e. one integer, and a    *)
(*     blob of embeddings is the sequence of those integers;               *)
(*   - the registry blob (a comma-joined string of property names) is the  *)
(*     sequence of the names; no name of the model contains a comma.       *)
(***************************************************************************)
EXTENDS Integers, Sequences, FiniteSets, TLC

VARIABLES
    descriptors,              \* server: the live descriptors of the collection, in insertion order
    registry,                 \* server: the "properties" entities of the collection (their blobs)
    collection_properties,    \* client: self.collection_properties
    updated_properties_flag,  \* client: self.updated_properties_flag
    last,                     \* the last call made by the caller: its arguments, commands sent and outcome
    descriptor_set,           \* server: whether the descriptor set of the collection exists
    clients                   \* the clients that push concurrently: their position and lists

vars == <<descriptors, registry, collection_properties, updated_properties_flag, last,
          descriptor_set, clients>>

----------------------------------------------------------------------------
(* Module constants of vectorstores.py *)

TEXT_PROPERTY == "content"
LANGCHAIN_ID_PROPERTY == "langchain_id"
NoneValue == "<None>"
EmptyDict == "<{}>"
ListValue == "<list>"
MissingProperty == "Missing property"
INVALID_METADATA_VALUE == {MissingProperty, NoneValue, EmptyDict}
DEFAULT_PROPERTIES == <<"_distance", LANGCHAIN_ID_PROPERTY, TEXT_PROPERTY>>
INVALID_DOC_METADATA_KEYS == {"_distance", TEXT_PROPERTY, "blob"}

----------------------------------------------------------------------------
(* Bounds of the model *)

MaxStore == 3      \* descriptors the collection holds at most
MaxItems == 2      \* items of one bulk add at most
MaxBatch == 2      \* batch_size ranges over 1..MaxBatch
MaxK == 2          \* k ranges over 1..MaxK
MaxFetchK == 3     \* fetch_k ranges over 1..MaxFetchK

----------------------------------------------------------------------------
(* Generic helpers *)

Range(s) == {s[i] : i \in 1..Len(s)}

EmptyMap == [x \in {} |-> ""]

Min(a, b) == IF a <= b THEN a ELSE b

\* s[from:to] of Python for 0 <= from: the items at 0-based positions from .. to-1
Slice(s, from, to) ==
    LET hi == Min(to, Len(s))
    IN  IF from >= hi THEN <<>> ELSE [i \in 1..(hi - from) |-> s[from + i]]

\* The property names of the model in the order Python's str comparison gives them.
NameOrder == <<"_distance", "bar", "baz", "content", "id", "langchain_id">>

RECURSIVE SortFrom(_, _)
SortFrom(s, i) ==
    IF i > Len(NameOrder) THEN <<>>
    ELSE SelectSeq(s, LAMBDA x : x = NameOrder[i]) \o SortFrom(s, i + 1)

\* list.sort() on a list of property names (stable; duplicates are kept)
SortNames(s) == SortFrom(s, 1)

\* the names of set S as a sorted list
SortedList(S) == SortFrom(SelectSeq(NameOrder, LAMBDA x : x \in S), 1)

----------------------------------------------------------------------------
(* The inputs the caller draws from *)

\* The documents the caller adds: the three of the class docstring (the third
\* with an empty text), one with a list-valued property, one with a
\* sentinel-valued property and a property named like the identity property,
\* and three the caller gives no id for (ids=None):
\* one with an id in its metadata, one with a langchain_id in its metadata
\* and one with neither.
Items ==
    << [id |-> "1", text |-> "foo",  meta |-> ("baz" :> "bar")],
       [id |-> "2", text |-> "thud", meta |-> ("bar" :> "baz")],
       [id |-> "3", text |-> "",     meta |-> EmptyMap],
       [id |-> "1", text |-> "thud", meta |-> ("baz" :> ListValue)],
       [id |-> "2", text |-> "qux",  meta |-> ("bar" :> MissingProperty @@ LANGCHAIN_ID_PROPERTY :> "9")],
       [id |-> NoneValue, text |-> "qux", meta |-> ("id" :> "7")],
       [id |-> NoneValue, text |-> "foo", meta |-> (LANGCHAIN_ID_PROPERTY :> "9")],
       [id |-> NoneValue, text |-> "thud", meta |-> EmptyMap] >>

\* The items the caller gives an id for
ItemsWithIds == {i \in 1..Len(Items) : Items[i].id # NoneValue}

\* str(uuid.uuid4()): the n-th identifier generated for the collection
Uuids == <<"u1", "u2", "u3", "u4", "u5">>

\* Embeddings.embed_documents / embed_query: a function of the text alone
Embed(text) == CASE text = "foo" -> 5 [] text = "thud" -> 3 [] OTHER -> 2

QueryTexts == {"thud"}

\* A metadata filter {key: ["==", value]}; NoFilter is filter=None
NoFilter == EmptyMap
Filters == {NoFilter, "bar" :> "baz"}

----------------------------------------------------------------------------
(* The server: replies of client.query *)

\* A reply is the result of the one command of interest of a query together
\* with the blobs returned (response[0] and response_array of run_vdms_query).
Failed == [cmd |-> "FailedCommand", entities |-> <<>>, returned |-> 0, blobs |-> <<>>]

\* Whether a descriptor satisfies every {key: ["==", value]} of the constraints
Satisfies(d, constraints) ==
    \A key \in DOMAIN constraints :
        key \in DOMAIN d.props /\ d.props[key] = constraints[key]

DistanceTag == "<float>"
NoDistance == -1

\* One entity of a FindDescriptor reply: the value of every property of the
\* results list, "Missing property" for one the descriptor does not carry;
\* _distance is a number in a nearest-neighbor reply only: the fraction
\* dist / scale.
EntityOf(d, list, dist) ==
    [f |-> [key \in Range(list) |->
                IF key = "_distance"
                THEN (IF dist = NoDistance THEN MissingProperty ELSE DistanceTag)
                ELSE IF key \in DOMAIN d.props THEN d.props[key] ELSE MissingProperty],
     dist |-> dist,
     scale |-> 1]

\* L2 distance between two embeddings of dimension 1
Distance(a, b) == (a - b) * (a - b)

\* Positions of the store ordered by distance to q, nearest first, ties in
\* insertion order
RECURSIVE NearestOrder(_, _, _)
NearestOrder(store, q, left) ==
    IF left = {} THEN <<>>
    ELSE LET best == CHOOSE i \in left :
                        \A j \in left :
                            \/ Distance(store[i].emb, q) < Distance(store[j].emb, q)
                            \/ (Distance(store[i].emb, q) = Distance(store[j].emb, q) /\ i <= j)
         IN  <<best>> \o NearestOrder(store, q, left \ {best})

\* FindDescriptor with constraints and no k_neighbors: every matching descriptor
FindReply(store, constraints, list, blob) ==
    LET hits == SelectSeq(store, LAMBDA d : Satisfies(d, constraints))
        ents == [i \in 1..Len(hits) |-> EntityOf(hits[i], list, NoDistance)]
    IN  [cmd |-> "FindDescriptor", entities |-> ents, returned |-> Len(ents),
         blobs |-> IF blob THEN [i \in 1..Len(hits) |-> hits[i].emb] ELSE <<>>]

\* FindDescriptor with k_neighbors = n and the query embedding q as blob
KnnReply(store, q, n, list, blob) ==
    LET order == NearestOrder(store, q, 1..Len(store))
        top == Slice(order, 0, n)
        ents == [i \in 1..Len(top) |->
                    EntityOf(store[top[i]], list, Distance(store[top[i]].emb, q))]
    IN  [cmd |-> "FindDescriptor", entities |-> ents, returned |-> Len(ents),
         blobs |-> IF blob THEN [i \in 1..Len(top) |-> store[top[i]].emb] ELSE <<>>]

\* FindDescriptor with the constraint _deletion == 1 added: the matching
\* descriptors are flagged and leave the collection
AfterDeletion(store, constraints) ==
    SelectSeq(store, LAMBDA d : ~Satisfies(d, constraints))

\* AddDescriptor with batch_properties and the concatenated embeddings: the
\* i-th property map is stored with the i-th slice of the blob
AfterAdd(store, batch_properties, blob) ==
    store \o [i \in 1..Len(batch_properties) |->
                 [props |-> batch_properties[i], emb |-> blob[i]]]

\* FindEntity on class "properties" for the collection: the blobs of its
\* registry entities
RegistryBlobs(reg) == reg

\* The update query of the registry (FindEntity with _deletion == 1, then
\* AddEntity with the joined names as blob) run as one transaction
AfterRegistryUpdate(reg, all_properties) == <<all_properties>>

----------------------------------------------------------------------------
(* VDMS_Utils *)

\* validate_vdms_properties: list-valued properties are dropped
validate_vdms_properties(metadata) ==
    [key \in {x \in DOMAIN metadata : metadata[x] # ListValue} |-> metadata[key]]

\* check_valid_response: entities without the identity key are dropped and
\* "returned" recounted
check_valid_response(reply) ==
    IF reply.cmd = "FindDescriptor"
    THEN LET ents == SelectSeq(reply.entities, LAMBDA e : LANGCHAIN_ID_PROPERTY \in DOMAIN e.f)
         IN  [reply EXCEPT !.entities = ents, !.returned = Len(ents)]
    ELSE reply

\* get_properties: the names of the first registry blob split at commas, the
\* default properties when no blob comes back; sorted
get_properties(reg) ==
    IF Len(RegistryBlobs(reg)) > 0
    THEN SortNames(RegistryBlobs(reg)[1])
    ELSE SortNames(DEFAULT_PROPERTIES)

----------------------------------------------------------------------------
(* VDMS: the write path *)

\* A command as logged in last.sent: its kind, the number of items (ids,
\* neighbors) it carries and the status of the server's reply
Cmd(kind, n, reply) == [cmd |-> kind, n |-> n, reply |-> reply]

\* A property map that leaves the text of the document out
props_without_content(document, metadata, id) ==
    [key \in DOMAIN metadata \cup {LANGCHAIN_ID_PROPERTY} |->
        IF key = LANGCHAIN_ID_PROPERTY THEN id ELSE metadata[key]]

\* get_props_from_metadata, lines 1722-1735: the persisted property map
get_props_from_metadata(document, metadata, id) ==
    LET base == IF id = NoneValue THEN EmptyMap ELSE (LANGCHAIN_ID_PROPERTY :> id)
        merged == [key \in DOMAIN base \cup DOMAIN metadata |->
                      IF key \in DOMAIN base THEN base[key] ELSE metadata[key]]
        withId == IF LANGCHAIN_ID_PROPERTY \notin DOMAIN merged /\ "id" \in DOMAIN metadata
                  THEN merged @@ (LANGCHAIN_ID_PROPERTY :> metadata["id"])
                  ELSE merged
    IN  IF document \notin {NoneValue, ""}
        THEN [key \in DOMAIN withId \cup {TEXT_PROPERTY} |->
                 IF key = TEXT_PROPERTY THEN document ELSE withId[key]]
        ELSE withId

\* A registration that appends the unknown keys and does not sort
register_props_unsorted(known, props) ==
    known \o SortedList(DOMAIN props \ Range(known))

\* get_props_from_metadata, lines 1737-1740: unknown keys are appended to
\* collection_properties, which is then sorted
register_props(known, props) ==
    SortNames(known \o SortedList(DOMAIN props \ Range(known)))

RECURSIVE register_all(_, _)
register_all(known, batch_properties) ==
    IF batch_properties = <<>> THEN known
    ELSE register_all(register_props(known, Head(batch_properties)), Tail(batch_properties))

\* add_batch, lines 1692-1705: the commands the halved retry sends, or the
\* ValueError of range() with a step of 0
RECURSIVE retry_slices(_, _, _)
retry_slices(all_queries, new_batch_size, start_idx) ==
    IF start_idx >= Len(all_queries) THEN <<>>
    ELSE Slice(all_queries, start_idx, Min(start_idx + new_batch_size - 1, Len(all_queries)))
         \o retry_slices(all_queries, new_batch_size, start_idx + new_batch_size)

halved_retry(all_queries) ==
    LET old_batch == Len(all_queries)
        new_batch_size == old_batch \div 2
    IN  IF new_batch_size = 0
        THEN [raised |-> TRUE, sent |-> <<>>]
        ELSE [raised |-> FALSE, sent |-> retry_slices(all_queries, new_batch_size, 0)]

\* An add_batch whose blob holds the vectors of the window in reverse order
add_batch_reversed_blob(known, store, window, resp) ==
    LET batch_properties ==
            [i \in 1..Len(window) |->
                get_props_from_metadata(window[i].text, window[i].meta, window[i].id)]
        extended_emb == [i \in 1..Len(window) |-> Embed(window[Len(window) + 1 - i].text)]
    IN  [ids |-> IF resp = "ok" THEN [i \in 1..Len(window) |-> window[i].id] ELSE <<>>,
         raised |-> (resp = "journal"),
         known |-> register_all(known, batch_properties),
         sent |-> <<Cmd("AddDescriptor", Len(window), resp)>>,
         adds |-> <<[properties |-> batch_properties, blob |-> extended_emb]>>,
         store |-> IF resp = "ok" THEN AfterAdd(store, batch_properties, extended_emb)
                   ELSE store]

\* add_batch: one AddDescriptor command for the window; resp is the server's
\* answer: "ok" (status 0), "status" (a non-zero status), "failed" (a
\* FailedCommand with another info) or "journal" (a FailedCommand whose info
\* names OutOfJournalSpace). adds is what the AddDescriptor commands sent
\* carry: the property maps of the command and its blob
add_batch(known, store, window, resp) ==
    LET batch_properties ==
            [i \in 1..Len(window) |->
                get_props_from_metadata(window[i].text, window[i].meta, window[i].id)]
        extended_emb == [i \in 1..Len(window) |-> Embed(window[i].text)]
        ids == [i \in 1..Len(window) |-> window[i].id]
        known2 == register_all(known, batch_properties)
        all_queries == <<Cmd("AddDescriptor", Len(window), resp)>>
        all_blobs == <<[properties |-> batch_properties, blob |-> extended_emb]>>
        retry == halved_retry(all_queries)
    IN  CASE resp = "ok" ->
                [ids |-> ids, raised |-> FALSE, known |-> known2, sent |-> all_queries,
                 adds |-> all_blobs,
                 store |-> AfterAdd(store, batch_properties, extended_emb)]
          [] resp = "journal" ->
                [ids |-> <<>>, raised |-> retry.raised, known |-> known2,
                 sent |-> all_queries \o retry.sent, adds |-> all_blobs, store |-> store]
          [] OTHER ->
                [ids |-> <<>>, raised |-> FALSE, known |-> known2, sent |-> all_queries,
                 adds |-> all_blobs, store |-> store]

\* A push that reads the registry and never updates it
push_without_update(known, reg, flag, resp) ==
    [registry |-> reg, flag |-> flag, sent |-> <<Cmd("FindEntity", 0, "ok")>>]

\* push_update_properties: the registry is replaced when the client knows a
\* property the registry lacks; resp is the server's answer to the update
push_update_properties(known, reg, flag, resp) ==
    LET pushed_props == get_properties(reg)
        missing_elements == Range(known) \ Range(pushed_props)
        all_properties == SortNames(pushed_props \o SortedList(missing_elements))
        find == Cmd("FindEntity", 0, "ok")
    IN  IF missing_elements # {}
        THEN [registry |-> IF resp = "ok" THEN AfterRegistryUpdate(reg, all_properties) ELSE reg,
              flag |-> TRUE,
              sent |-> <<find, Cmd("UpdateProperties", Len(all_properties), resp)>>]
        ELSE [registry |-> reg, flag |-> flag, sent |-> <<find>>]

\* add_embeddings, lines 1211-1226: the metadata are validated; with ids=None
\* the id of an item is the langchain_id of its metadata, or a fresh UUID
add_embeddings_inputs(items, generated) ==
    [i \in 1..Len(items) |->
        [text |-> items[i].text,
         meta |-> validate_vdms_properties(items[i].meta),
         id |-> IF \E j \in 1..Len(items) : items[j].id # NoneValue
                THEN items[i].id
                ELSE IF LANGCHAIN_ID_PROPERTY \in DOMAIN validate_vdms_properties(items[i].meta)
                THEN items[i].meta[LANGCHAIN_ID_PROPERTY]
                ELSE Uuids[generated + i]]]

\* The answer to the w-th window of a bulk add under a fault plan
RespOf(plan, w) == IF plan.w = w THEN plan.kind ELSE "ok"

\* A bulk add that sends the items from start_idx on as one window
add_one_window(items, batch_size, plan, start_idx, acc) ==
    IF start_idx >= Len(items) \/ acc.raised THEN acc
    ELSE LET r == add_batch(acc.known, acc.store, Slice(items, start_idx, Len(items)),
                            RespOf(plan, (start_idx \div batch_size) + 1))
         IN  [ids |-> acc.ids \o r.ids, raised |-> r.raised, known |-> r.known,
              sent |-> acc.sent \o r.sent, adds |-> acc.adds \o r.adds, store |-> r.store]

\* add_from, lines 1596-1622: the windows in order; an exception ends the loop
RECURSIVE add_windows(_, _, _, _, _)
add_windows(items, batch_size, plan, start_idx, acc) ==
    IF start_idx >= Len(items) \/ acc.raised THEN acc
    ELSE LET end_idx == Min(start_idx + batch_size, Len(items))
             r == add_batch(acc.known, acc.store, Slice(items, start_idx, end_idx),
                            RespOf(plan, (start_idx \div batch_size) + 1))
         IN  add_windows(items, batch_size, plan, start_idx + batch_size,
                         [ids |-> acc.ids \o r.ids, raised |-> r.raised, known |-> r.known,
                          sent |-> acc.sent \o r.sent, adds |-> acc.adds \o r.adds,
                          store |-> r.store])

\* add_from: the windows, then push_update_properties when none raised
add_from(known, store, reg, flag, items, batch_size, plan, pushResp) ==
    LET w == add_windows(items, batch_size, plan, 0,
                         [ids |-> <<>>, raised |-> FALSE, known |-> known,
                          sent |-> <<>>, adds |-> <<>>, store |-> store])
        p == push_update_properties(w.known, reg, flag, pushResp)
    IN  IF w.raised
        THEN [ids |-> <<>>, raised |-> TRUE, known |-> w.known, store |-> w.store,
              registry |-> reg, flag |-> flag, sent |-> w.sent, adds |-> w.adds]
        ELSE [ids |-> w.ids, raised |-> FALSE, known |-> w.known, store |-> w.store,
              registry |-> p.registry, flag |-> p.flag, sent |-> w.sent \o p.sent,
              adds |-> w.adds]

----------------------------------------------------------------------------
(* VDMS: reading by id, and deleting *)

\* A projection that hands every key of the entity to the caller as metadata
document_with_all_keys(descriptor_entity) ==
    [raised |-> FALSE,
     doc |-> [page_content |-> NoneValue, metadata |-> descriptor_entity.f, id |-> NoneValue]]

\* descriptor2document: the Document of an entity, or the KeyError raised when
\* the entity has no content key
descriptor2document(descriptor_entity) ==
    LET kept == {key \in DOMAIN descriptor_entity.f :
                    /\ key \notin INVALID_DOC_METADATA_KEYS
                    /\ descriptor_entity.f[key] \notin INVALID_METADATA_VALUE}
        metadata == [key \in kept \ {LANGCHAIN_ID_PROPERTY} |-> descriptor_entity.f[key]]
        d_id == IF LANGCHAIN_ID_PROPERTY \in kept
                THEN descriptor_entity.f[LANGCHAIN_ID_PROPERTY] ELSE NoneValue
    IN  IF TEXT_PROPERTY \in DOMAIN descriptor_entity.f
        THEN [raised |-> FALSE,
              doc |-> [page_content |-> descriptor_entity.f[TEXT_PROPERTY],
                       metadata |-> metadata, id |-> d_id]]
        ELSE [raised |-> TRUE, doc |-> [page_content |-> NoneValue, metadata |-> EmptyMap, id |-> d_id]]

\* The Documents of a list of entities; raised when one of them raises
documents_of(entities) ==
    [raised |-> \E i \in 1..Len(entities) : descriptor2document(entities[i]).raised,
     docs |-> [i \in 1..Len(entities) |-> descriptor2document(entities[i]).doc]]

\* get_by_ids: one FindDescriptor per id, listing the properties of the
\* registry; resp is the server's answer to these commands
RECURSIVE get_by_ids(_, _, _, _)
get_by_ids(store, reg, ids, resp) ==
    IF ids = <<>> THEN [raised |-> FALSE, docs |-> <<>>, sent |-> <<>>]
    ELSE LET list == get_properties(reg)
             reply == IF resp = "ok"
                      THEN check_valid_response(
                               FindReply(store, LANGCHAIN_ID_PROPERTY :> Head(ids), list, FALSE))
                      ELSE Failed
             this_docs == IF reply.cmd = "FindDescriptor"
                          THEN documents_of(reply.entities)
                          ELSE [raised |-> FALSE, docs |-> <<>>]
             rest == get_by_ids(store, reg, Tail(ids), resp)
         IN  IF this_docs.raised
             THEN [raised |-> TRUE, docs |-> <<>>,
                   sent |-> <<Cmd("FindDescriptor", 1, resp)>>]
             ELSE [raised |-> rest.raised,
                   docs |-> IF rest.raised THEN <<>> ELSE this_docs.docs \o rest.docs,
                   sent |-> <<Cmd("FindDescriptor", 1, resp)>> \o rest.sent]

\* get_by_constraints: one FindDescriptor listing the properties of the
\* registry; None is returned when the response has no FindDescriptor or an
\* entity has no content key
get_by_constraints(store, reg, constraints, resp) ==
    LET reply == IF resp = "ok"
                 THEN check_valid_response(FindReply(store, constraints, get_properties(reg), FALSE))
                 ELSE Failed
    IN  IF reply.cmd = "FindDescriptor" /\ ~documents_of(reply.entities).raised
        THEN [none |-> FALSE, docs |-> documents_of(reply.entities).docs,
              sent |-> <<Cmd("FindDescriptor", 0, resp)>>]
        ELSE [none |-> TRUE, docs |-> <<>>, sent |-> <<Cmd("FindDescriptor", 0, resp)>>]

\* A deletion that flags only the first id of a window
flag_first_id(store, batch_ids, constraints) ==
    IF batch_ids = <<>> THEN store
    ELSE AfterDeletion(store, (LANGCHAIN_ID_PROPERTY :> Head(batch_ids)) @@ constraints)

\* The descriptors left when each id of a window is flagged for deletion
RECURSIVE flag_ids(_, _, _)
flag_ids(store, batch_ids, constraints) ==
    IF batch_ids = <<>> THEN store
    ELSE flag_ids(AfterDeletion(store, (LANGCHAIN_ID_PROPERTY :> Head(batch_ids)) @@ constraints),
                  Tail(batch_ids), constraints)

\* batch_delete with an id list: one query of FindDescriptor commands per
\* window of batch_size ids; the answer to window plan.w is plan.kind
RECURSIVE batch_delete(_, _, _, _, _, _)
batch_delete(store, constraints, ids, batch_size, plan, start_idx) ==
    IF start_idx >= Len(ids) THEN [store |-> store, sent |-> <<>>]
    ELSE LET batch_ids == Slice(ids, start_idx, Min(start_idx + batch_size, Len(ids)))
             resp == RespOf(plan, (start_idx \div batch_size) + 1)
             after == IF resp = "ok" THEN flag_ids(store, batch_ids, constraints) ELSE store
             rest == batch_delete(after, constraints, ids, batch_size, plan, start_idx + batch_size)
         IN  [store |-> rest.store,
              sent |-> <<Cmd("FindDescriptorDelete", Len(batch_ids), resp)>> \o rest.sent]

\* A delete that sends the storeIndex command before the flag requests
delete_rebuild_first(store, ids, batch_size, plan) ==
    [store |-> batch_delete(store, NoFilter, ids, batch_size, plan, 0).store,
     ret |-> TRUE,
     sent |-> <<Cmd("FindDescriptorSet", 0, "ok")>>
              \o batch_delete(store, NoFilter, ids, batch_size, plan, 0).sent]

\* delete: batch_delete, then the storeIndex command; the value returned is
\* whether the response built by batch_delete has a FindDescriptor key
delete(store, ids, batch_size, plan) ==
    LET r == batch_delete(store, NoFilter, ids, batch_size, plan, 0)
        new_response == [cmd |-> "FindDescriptor"]
    IN  [store |-> r.store,
         ret |-> (new_response.cmd = "FindDescriptor"),
         sent |-> r.sent \o <<Cmd("FindDescriptorSet", 0, "ok")>>]

----------------------------------------------------------------------------
(* VDMS: the search path *)

\* check_and_update_properties: after a push the client replaces its list by
\* the registry's when the two differ
check_and_update_properties(known, flag, reg) ==
    LET pushed_props == get_properties(reg)
    IN  IF flag
        THEN [known |-> IF SortNames(known) # pushed_props THEN pushed_props ELSE SortNames(known),
              flag |-> FALSE, sent |-> <<Cmd("FindEntity", 0, "ok")>>]
        ELSE [known |-> known, flag |-> flag, sent |-> <<>>]

\* get_k_candidates, lines 2213-2219: an empty response when the server
\* answers FailedCommand
candidates_of(reply) ==
    IF reply.cmd = "FailedCommand"
    THEN [response |-> <<>>, response_array |-> <<>>]
    ELSE [response |-> <<reply>>, response_array |-> reply.blobs]

\* get_k_candidates: the nearest-neighbor query
get_k_candidates(store, q, n, list, blob, resp) ==
    candidates_of(IF resp = "ok" THEN check_valid_response(KnnReply(store, q, n, list, blob))
                  ELSE Failed)

\* get_descriptor_response, lines 2163-2169: the walk over the neighbors
RECURSIVE walk(_, _, _, _)
walk(entities, ids_of_interest, k_neighbors, new_entities) ==
    IF entities = <<>> THEN new_entities
    ELSE LET ent == Head(entities)
             next == IF ent.f[LANGCHAIN_ID_PROPERTY] \in ids_of_interest
                     THEN Append(new_entities, ent) ELSE new_entities
         IN  IF Len(next) = k_neighbors THEN next
             ELSE walk(Tail(entities), ids_of_interest, k_neighbors, next)

\* max() of the finite distances of the entities; -1 stands for the ValueError
\* of max() on an empty list
max_dist(entities) ==
    IF entities = <<>> THEN -1
    ELSE CHOOSE m \in {entities[i].dist : i \in 1..Len(entities)} :
            \A i \in 1..Len(entities) : entities[i].dist <= m

\* get_descriptor_response, lines 2177-2197: min_dist is 0.0; a division by
\* zero gives 0.0 when max_dist equals min_dist
normalize(entities) ==
    LET min_dist == 0
        mx == max_dist(entities)
    IN  [i \in 1..Len(entities) |->
            IF mx - min_dist = 0
            THEN [entities[i] EXCEPT !.dist = 0, !.scale = 1]
            ELSE [entities[i] EXCEPT !.dist = entities[i].dist - min_dist, !.scale = mx - min_dist]]

\* get_descriptor_response without a filter, lines 2107-2126: the first
\* k_neighbors of the candidates
plain_response(cand, k_neighbors, knnCmd) ==
    IF Len(cand.response) > 0
    THEN LET plainEnts == Slice(cand.response[1].entities, 0, k_neighbors)
         IN  [raised |-> FALSE, early |-> FALSE,
              response |-> <<[cand.response[1] EXCEPT !.entities = plainEnts,
                                                       !.returned = Len(plainEnts)]>>,
              response_array |-> Slice(cand.response_array, 0, Len(plainEnts)),
              sent |-> <<knnCmd>>]
    ELSE [raised |-> FALSE, early |-> FALSE, response |-> <<>>, response_array |-> <<>>,
          sent |-> <<knnCmd>>]

\* get_descriptor_response with a filter, lines 2127-2175: first is the answer
\* to the query of the filter, cand2 the candidates (fetched only when the
\* filter matched something)
filtered_response(first, cand2, k_neighbors, fltCmd, knnCmd) ==
    IF ~(first.cmd = "FindDescriptor" /\ first.returned > 0)
    THEN \* return [], []
         [raised |-> FALSE, early |-> TRUE, response |-> <<>>, response_array |-> <<>>,
          sent |-> <<fltCmd>>]
    ELSE IF cand2.response = <<>>
    THEN \* response[0] of an empty list: IndexError
         [raised |-> TRUE, early |-> TRUE, response |-> <<>>, response_array |-> <<>>,
          sent |-> <<fltCmd, knnCmd>>]
    ELSE IF cand2.response[1].returned = 0
    THEN \* return [], []
         [raised |-> FALSE, early |-> TRUE, response |-> <<>>, response_array |-> <<>>,
          sent |-> <<fltCmd, knnCmd>>]
    ELSE LET ids_of_interest ==
                 {first.entities[i].f[LANGCHAIN_ID_PROPERTY] : i \in 1..Len(first.entities)}
             new_entities == walk(cand2.response[1].entities, ids_of_interest, k_neighbors, <<>>)
         IN  [raised |-> FALSE, early |-> FALSE,
              response |-> <<[cand2.response[1] EXCEPT !.entities = new_entities,
                                                        !.returned = Len(new_entities)]>>,
              response_array |-> Slice(cand2.response_array, 0, Len(new_entities)),
              sent |-> <<fltCmd, knnCmd>>]

\* get_descriptor_response, lines 2177-2197: the distances of the response
\* are normalized when normalize_distance is set and the filtered path has not
\* returned before
normalized_response(found, normalize_distance) ==
    IF found.raised \/ found.early \/ ~normalize_distance THEN found
    ELSE IF found.response = <<>> \/ max_dist(found.response[1].entities) = -1
    THEN \* response[0] of an empty list, or max() of an empty list
         [found EXCEPT !.raised = TRUE]
    ELSE [found EXCEPT !.response =
             <<[found.response[1] EXCEPT !.entities = normalize(found.response[1].entities)]>>]

\* The results list of the filtered path: the identity property is added
with_id(list) ==
    IF LANGCHAIN_ID_PROPERTY \in Range(list) THEN list ELSE Append(list, LANGCHAIN_ID_PROPERTY)

\* The server's answer to a command that plan may name as failing
AnswerTo(plan, failing) == IF plan = failing THEN "failed" ELSE "ok"

\* get_descriptor_response. plan names the command the server fails:
\* "filter_failed" the query of the filter, "knn_failed" the nearest-neighbor
\* query, "ok" none.
get_descriptor_response(store, k_neighbors, fetch_k, constraints, list, blob, q, normalize_distance, plan) ==
    IF k_neighbors >= fetch_k
    THEN [raised |-> TRUE, early |-> TRUE, response |-> <<>>, response_array |-> <<>>,
          sent |-> <<>>]
    ELSE normalized_response(
             IF constraints = NoFilter
             THEN plain_response(
                      get_k_candidates(store, q, fetch_k, list, blob, AnswerTo(plan, "knn_failed")),
                      k_neighbors,
                      Cmd("FindDescriptorKNN", fetch_k, AnswerTo(plan, "knn_failed")))
             ELSE filtered_response(
                      IF plan = "filter_failed" THEN Failed
                      ELSE check_valid_response(FindReply(store, constraints, with_id(list), blob)),
                      get_k_candidates(store, q, fetch_k, with_id(list), blob,
                                       AnswerTo(plan, "knn_failed")),
                      k_neighbors,
                      Cmd("FindDescriptor", 0, AnswerTo(plan, "filter_failed")),
                      Cmd("FindDescriptorKNN", fetch_k, AnswerTo(plan, "knn_failed"))),
             normalize_distance)

\* query_by_embeddings, lines 1324-1327: sentinel-valued entries are stripped
strip_invalid(ent) ==
    [ent EXCEPT !.f = [key \in {x \in DOMAIN ent.f : ent.f[x] \notin INVALID_METADATA_VALUE}
                          |-> ent.f[key]]]

\* query_by_embeddings, lines 1309-1331: the result of the query with the
\* sentinel-valued entries of its entities stripped
stripped_response(sync, r) ==
    [raised |-> r.raised,
     response |-> IF r.response = <<>> THEN <<>>
                  ELSE <<[r.response[1] EXCEPT !.entities =
                            [i \in 1..Len(r.response[1].entities) |->
                                strip_invalid(r.response[1].entities[i])]]>>,
     response_array |-> r.response_array,
     known |-> sync.known, flag |-> sync.flag, sent |-> sync.sent \o r.sent]

\* A query that goes to the nearest-neighbor search without comparing
\* fetch_k and k
unchecked_response(sync, store, q, k, fetch_k, filter, blob, normalize_distance, plan) ==
    stripped_response(
        sync,
        plain_response(
            get_k_candidates(store, q, fetch_k, sync.known, blob, AnswerTo(plan, "knn_failed")),
            k,
            Cmd("FindDescriptorKNN", fetch_k, AnswerTo(plan, "knn_failed"))))

\* query_by_embeddings, lines 1296-1308: get_descriptor_response is called
\* with the synchronized property list when fetch_k >= k
checked_response(sync, store, q, k, fetch_k, filter, blob, normalize_distance, plan) ==
    stripped_response(
        sync,
        IF fetch_k >= k
        THEN get_descriptor_response(store, k, fetch_k, filter, sync.known, blob, q,
                                     normalize_distance, plan)
        ELSE [raised |-> FALSE, response |-> <<>>, response_array |-> <<>>, sent |-> <<>>])

\* query_by_embeddings for one query embedding: the property sync, the call
\* of get_descriptor_response when fetch_k >= k, the stripping of sentinels
query_by_embeddings(known, flag, reg, store, q, k, fetch_k, filter, blob, normalize_distance, plan) ==
    checked_response(check_and_update_properties(known, flag, reg),
                     store, q, k, fetch_k, filter, blob, normalize_distance, plan)

\* results2documents_and_scores, lines 1344-1365: the (Document, distance)
\* pairs of the entities up to the first one that raises (a missing _distance
\* or content key, or no id seen so far); the exception is swallowed
RECURSIVE pairs_of(_, _)
pairs_of(entities, d_id) ==
    IF entities = <<>> THEN <<>>
    ELSE LET ent == Head(entities)
             kept == {key \in DOMAIN ent.f :
                         /\ ent.f[key] \notin INVALID_METADATA_VALUE
                         /\ key \notin INVALID_DOC_METADATA_KEYS}
             this_id == IF LANGCHAIN_ID_PROPERTY \in kept THEN ent.f[LANGCHAIN_ID_PROPERTY] ELSE d_id
         IN  IF \/ "_distance" \notin DOMAIN ent.f
                \/ ent.f["_distance"] # DistanceTag
                \/ TEXT_PROPERTY \notin DOMAIN ent.f
                \/ this_id = "<unbound>"
             THEN <<>>
             ELSE <<[doc |-> [page_content |-> ent.f[TEXT_PROPERTY],
                              metadata |-> [key \in kept \ {LANGCHAIN_ID_PROPERTY} |-> ent.f[key]],
                              id |-> this_id],
                     dist |-> ent.dist, scale |-> ent.scale]>>
                  \o pairs_of(Tail(entities), this_id)

results2documents_and_scores(response) ==
    IF response = <<>> \/ response[1].cmd # "FindDescriptor" THEN <<>>
    ELSE pairs_of(response[1].entities, "<unbound>")

results2documents(response) ==
    LET pairs == results2documents_and_scores(response)
    IN  [i \in 1..Len(pairs) |-> pairs[i].doc]

\* maximal_marginal_relevance of langchain_vdms.utils: greedy selection of
\* min(k, number of candidates) positions; the score of a candidate is
\* lambda * sim(query, c) - (1 - lambda) * max sim(c, selected), the
\* similarity an inner product, ties going to the earlier candidate. lambda
\* is L / 2 and the score is doubled to stay in the integers.
RECURSIVE maximal_marginal_relevance(_, _, _, _, _)
maximal_marginal_relevance(query_embedding, embedding_list, k, L, selected) ==
    IF Len(selected) >= Min(k, Len(embedding_list)) THEN selected
    ELSE LET left == (1..Len(embedding_list)) \ Range(selected)
             sims(c) == {embedding_list[c] * embedding_list[selected[j]] : j \in 1..Len(selected)}
             redundancy(c) == IF selected = <<>> THEN 0
                              ELSE CHOOSE m \in sims(c) : \A x \in sims(c) : x <= m
             score(c) == L * query_embedding * embedding_list[c] - (2 - L) * redundancy(c)
             best == CHOOSE c \in left :
                        \A d \in left : score(c) > score(d) \/ (score(c) = score(d) /\ c <= d)
         IN  maximal_marginal_relevance(query_embedding, embedding_list, k, L,
                                        Append(selected, best))

\* A selection that keeps the first candidate only
pick_first(candidates, mmr_selected) == Slice(candidates, 0, 1)

\* [r for i, r in enumerate(candidates) if i in mmr_selected]
pick_selected(candidates, mmr_selected) ==
    LET keep == SelectSeq([i \in 1..Len(candidates) |-> i], LAMBDA i : i \in Range(mmr_selected))
    IN  [j \in 1..Len(keep) |-> candidates[keep[j]]]

\* The public search methods. similarity_search and
\* max_marginal_relevance_search(_with_score) embed the query and call their
\* _by_vector method, which is what is modelled under their name.
Entries == {"similarity_search", "similarity_search_with_score",
            "similarity_search_with_relevance_scores",
            "max_marginal_relevance_search", "max_marginal_relevance_search_with_score"}

\* lambda_mult of the MMR searches, doubled: the default 0.5
LambdaTwice == 1

\* The values of lambda_mult a caller passes, doubled: 0, the default and 1
Lambdas(entry) ==
    IF entry \in {"max_marginal_relevance_search", "max_marginal_relevance_search_with_score"}
    THEN {0, LambdaTwice, 2}
    ELSE {LambdaTwice}

\* What a search method hands back where query_by_embeddings returned
\* normally: ret the value returned, found the ids of the entities of the
\* response, blobs the response_array
outcome(qr, raised, ret) ==
    [raised |-> raised, ret |-> ret, known |-> qr.known, flag |-> qr.flag, sent |-> qr.sent,
     blobs |-> qr.response_array,
     found |-> IF qr.response = <<>> THEN <<>>
               ELSE [i \in 1..Len(qr.response[1].entities) |->
                        qr.response[1].entities[i].f[LANGCHAIN_ID_PROPERTY]]]

\* similarity_search_by_vector, lines 428-442: resp[0] of an empty response is
\* an IndexError, which the except ValueError clause does not catch
documents_or_raise(qr, docs) ==
    IF qr.response = <<>> THEN outcome(qr, TRUE, <<>>)
    ELSE IF docs.raised THEN outcome(qr, TRUE, <<>>)
    ELSE outcome(qr, FALSE, docs.docs)

\* similarity_search_with_relevance_scores, lines 1062-1073: the score of a
\* normalized distance d is 1 - d
relevance_scores(pairs) ==
    [i \in 1..Len(pairs) |-> [pairs[i] EXCEPT !.dist = pairs[i].scale - pairs[i].dist]]

\* max_marginal_relevance_search_by_vector(_with_score), lines 546-564 and
\* 925-943: no selection is made from an empty response_array
mmr_outcome(qr, candidates, query_embedding, k, lambda_mult) ==
    IF Len(qr.response_array) = 0 THEN outcome(qr, FALSE, <<>>)
    ELSE outcome(qr, FALSE,
                 pick_selected(candidates,
                               maximal_marginal_relevance(query_embedding, qr.response_array,
                                                          k, lambda_mult, <<>>)))

\* The value a search method makes of the result of query_by_embeddings
search_result(entry, qr, query_embedding, k, lambda_mult) ==
    IF qr.raised THEN outcome(qr, TRUE, <<>>)
    ELSE CASE entry = "similarity_search" ->
                 documents_or_raise(qr, IF qr.response = <<>> THEN [raised |-> FALSE, docs |-> <<>>]
                                        ELSE documents_of(qr.response[1].entities))
           [] entry = "similarity_search_with_score" ->
                 outcome(qr, FALSE, results2documents_and_scores(qr.response))
           [] entry = "similarity_search_with_relevance_scores" ->
                 outcome(qr, FALSE, relevance_scores(results2documents_and_scores(qr.response)))
           [] entry = "max_marginal_relevance_search" ->
                 mmr_outcome(qr, results2documents(qr.response), query_embedding, k, lambda_mult)
           [] OTHER ->
                 mmr_outcome(qr, results2documents_and_scores(qr.response), query_embedding, k,
                             lambda_mult)

search(entry, known, flag, reg, store, query, k, fetch_k, filter, lambda_mult, plan) ==
    search_result(
        entry,
        query_by_embeddings(known, flag, reg, store, Embed(query), k, fetch_k, filter,
                            entry \in {"max_marginal_relevance_search",
                                       "max_marginal_relevance_search_with_score"},
                            entry = "similarity_search_with_relevance_scores", plan),
        Embed(query), k, lambda_mult)

----------------------------------------------------------------------------
(* The state machine *)

NoCall == [op |-> "none", entry |-> "", items |-> <<>>, ids |-> <<>>, batch_size |-> 0,
           ids_given |-> FALSE, delete_existing |-> FALSE,
           query |-> "", k |-> 0, fetch_k |-> 0, filter |-> NoFilter, lambda_mult |-> 0,
           plan |-> "ok", before |-> 0,
           raised |-> FALSE, none |-> FALSE, ret |-> <<>>, found |-> <<>>, sent |-> <<>>,
           adds |-> <<>>, blobs |-> <<>>]

\* No client pushes concurrently with the caller
NoClients == <<>>

\* VDMS.__init__ on a server without a registry for the collection: the
\* descriptor set has been created
Init ==
    /\ descriptors = <<>>
    /\ registry = <<>>
    /\ collection_properties = get_properties(<<>>)
    /\ updated_properties_flag = FALSE
    /\ last = NoCall
    /\ descriptor_set = TRUE
    /\ clients = NoClients

\* The non-empty lists of at most n of the indices 1..m, in increasing order
RECURSIVE IncreasingLists(_, _)
IncreasingLists(m, n) ==
    IF n = 0 THEN {<<>>}
    ELSE LET shorter == IncreasingLists(m, n - 1)
         IN  shorter \cup {Append(s, x) : s \in {t \in shorter : Len(t) = n - 1},
                                          x \in 1..m}

ListsUpTo(m, n) ==
    {s \in IncreasingLists(m, n) : s # <<>> /\ \A i \in 1..(Len(s) - 1) : s[i] < s[i + 1]}

\* The ids a caller names in delete and get_by_ids
IdList == <<"1", "2", "3">>
IdLists == {[i \in 1..Len(s) |-> IdList[s[i]]] : s \in ListsUpTo(Len(IdList), MaxItems)}

NoFault == [w |-> 0, kind |-> "ok"]
AddPlans(windows) ==
    {NoFault} \cup {[w |-> i, kind |-> x] : i \in 1..windows, x \in {"status", "failed", "journal"}}
DeletePlans(windows) ==
    {NoFault} \cup {[w |-> i, kind |-> "failed"] : i \in 1..windows}
Windows(n, batch_size) == (n + batch_size - 1) \div batch_size

\* add_texts(texts, metadatas, ids=..., batch_size=...)
AddTexts(idxs, batch_size, plan, pushResp) ==
    /\ last = NoCall
    /\ Len(descriptors) + Len(idxs) <= MaxStore
    /\ \E r \in {add_from(collection_properties, descriptors, registry,
                          updated_properties_flag,
                          add_embeddings_inputs([i \in 1..Len(idxs) |-> Items[idxs[i]]],
                                                Len(descriptors)),
                          batch_size, plan, pushResp)} :
           /\ descriptors' = r.store
           /\ registry' = r.registry
           /\ collection_properties' = r.known
           /\ updated_properties_flag' = r.flag
           /\ last' = [NoCall EXCEPT !.op = "add_texts", !.items = idxs,
                                     !.batch_size = batch_size, !.before = Len(descriptors),
                                     !.raised = r.raised, !.ret = r.ids, !.sent = r.sent,
                                     !.adds = r.adds]
    /\ UNCHANGED <<descriptor_set, clients>>

\* delete(ids=..., batch_size=...)
Delete(ids, batch_size, plan) ==
    /\ last = NoCall
    /\ \E r \in {delete(descriptors, ids, batch_size, plan)} :
           /\ descriptors' = r.store
           /\ last' = [NoCall EXCEPT !.op = "delete", !.ids = ids, !.batch_size = batch_size,
                                     !.before = Len(descriptors),
                                     !.ret = <<r.ret>>, !.sent = r.sent]
    /\ UNCHANGED <<registry, collection_properties, updated_properties_flag, descriptor_set, clients>>

\* get_by_ids(ids)
GetByIds(ids, resp) ==
    /\ last = NoCall
    /\ \E r \in {get_by_ids(descriptors, registry, ids, resp)} :
           last' = [NoCall EXCEPT !.op = "get_by_ids", !.ids = ids, !.raised = r.raised,
                                  !.ret = r.docs, !.sent = r.sent]
    /\ UNCHANGED <<descriptors, registry, collection_properties, updated_properties_flag,
                   descriptor_set, clients>>

\* get_by_constraints(collection_name, constraints)
GetByConstraints(constraints, resp) ==
    /\ last = NoCall
    /\ \E r \in {get_by_constraints(descriptors, registry, constraints, resp)} :
           last' = [NoCall EXCEPT !.op = "get_by_constraints", !.filter = constraints,
                                  !.none = r.none, !.ret = r.docs, !.sent = r.sent]
    /\ UNCHANGED <<descriptors, registry, collection_properties, updated_properties_flag,
                   descriptor_set, clients>>

\* One of the search methods
Search(entry, query, k, fetch_k, filter, lambda_mult, plan) ==
    /\ last = NoCall
    /\ \E r \in {search(entry, collection_properties, updated_properties_flag, registry,
                        descriptors, query, k, fetch_k, filter, lambda_mult, plan)} :
           /\ collection_properties' = r.known
           /\ updated_properties_flag' = r.flag
           /\ last' = [NoCall EXCEPT !.op = "search", !.entry = entry, !.query = query, !.k = k,
                                     !.fetch_k = fetch_k, !.filter = filter,
                                     !.lambda_mult = lambda_mult, !.plan = plan,
                                     !.before = Len(descriptors),
                                     !.raised = r.raised, !.ret = r.ret, !.found = r.found,
                                     !.sent = r.sent, !.blobs = r.blobs]
    /\ UNCHANGED <<descriptors, registry, descriptor_set, clients>>

\* Another client of the same collection replaces the registry: it pushes the
\* default properties and the properties it knows
OtherClientPush(S) ==
    /\ last = NoCall
    /\ registry' = AfterRegistryUpdate(registry, SortedList(Range(DEFAULT_PROPERTIES) \cup S))
    /\ last' = [NoCall EXCEPT !.op = "other_client"]
    /\ UNCHANGED <<descriptors, collection_properties, updated_properties_flag, descriptor_set, clients>>

\* The caller takes the outcome of its call; the store is ready for the next call
Return ==
    /\ last # NoCall
    /\ last' = NoCall
    /\ UNCHANGED <<descriptors, registry, collection_properties, updated_properties_flag,
                   descriptor_set, clients>>

\* The lists of items of one add, all of them of the set S
ItemLists(S) == {s \in ListsUpTo(Len(Items), MaxItems) : Range(s) \subseteq S}

SearchPlans(filter) == IF filter = NoFilter THEN {"ok", "knn_failed"}
                       ELSE {"ok", "knn_failed", "filter_failed"}

Next ==
    \/ \E idxs \in ItemLists(ItemsWithIds), batch_size \in 1..MaxBatch,
          pushResp \in {"ok", "failed"} :
          \E plan \in AddPlans(Windows(Len(idxs), batch_size)) :
             AddTexts(idxs, batch_size, plan, pushResp)
    \/ \E ids \in IdLists, batch_size \in 1..MaxBatch :
          \E plan \in DeletePlans(Windows(Len(ids), batch_size)) :
             Delete(ids, batch_size, plan)
    \/ \E ids \in IdLists, resp \in {"ok", "failed"} :
          GetByIds(ids, resp)
    \/ \E constraints \in Filters, resp \in {"ok", "failed"} :
          GetByConstraints(constraints, resp)
    \/ \E entry \in Entries, query \in QueryTexts, k \in 1..MaxK, fetch_k \in 1..MaxFetchK,
          filter \in Filters :
          \E plan \in SearchPlans(filter), lambda_mult \in Lambdas(entry) :
             Search(entry, query, k, fetch_k, filter, lambda_mult, plan)
    \/ \E S \in SUBSET {"bar", "baz"} : OtherClientPush(S)
    \/ Return

Spec == Init /\ [][Next]_vars

\* The adds alone, of every item: the items of one call all have an id, or
\* none has
NextAdd ==
    \/ \E idxs \in ItemLists(ItemsWithIds) \cup ItemLists((1..Len(Items)) \ ItemsWithIds),
          batch_size \in 1..MaxBatch, pushResp \in {"ok", "failed"} :
          \E plan \in AddPlans(Windows(Len(idxs), batch_size)) :
             AddTexts(idxs, batch_size, plan, pushResp)
    \/ Return

SpecAdd == Init /\ [][NextAdd]_vars

----------------------------------------------------------------------------
(* Properties *)

\* Every command of the call was answered with success
AllOk(sent) == \A i \in 1..Len(sent) : sent[i].reply = "ok"

\* The call sent a command of this kind
Sent(call, kind) == \E i \in 1..Len(call.sent) : call.sent[i].cmd = kind

\* The documents get_by_ids(id) reads from a collection whose server answers
ReadOf(store, reg, id) == get_by_ids(store, reg, <<id>>, "ok")

\* C1. Deletion completeness: after delete(ids=S) whose commands the server
\* ran, get_by_ids on an id of S returns no document, and get_by_ids on any
\* other id returns the documents it returned before the delete.
C1_DeletionCompleteness ==
    [][(last'.op = "delete" /\ AllOk(last'.sent)) =>
          \A id \in Range(IdList) :
              IF id \in Range(last'.ids)
              THEN ReadOf(descriptors', registry', id).docs = <<>>
                   /\ ~ReadOf(descriptors', registry', id).raised
              ELSE ReadOf(descriptors', registry', id).docs
                       = ReadOf(descriptors, registry, id).docs]_vars

\* A delete that removed some descriptors and left others
C1_SomeDeletedSomeKept ==
    /\ last.op = "delete"
    /\ AllOk(last.sent)
    /\ Len(last.ids) = 2
    /\ 0 < Len(descriptors)
    /\ Len(descriptors) < last.before

\* The ids of the items of an add are distinct and not stored before it
FreshIds(idxs, store) ==
    /\ \A i, j \in 1..Len(idxs) : i # j => Items[idxs[i]].id # Items[idxs[j]].id
    /\ \A i \in 1..Len(idxs), n \in 1..Len(store) :
           store[n].props[LANGCHAIN_ID_PROPERTY] # Items[idxs[i]].id

\* get_by_ids(item.id) returns one document, with the text and the metadata
\* the item was added with
ReadsBack(store, reg, item) ==
    /\ ~ReadOf(store, reg, item.id).raised
    /\ Len(ReadOf(store, reg, item.id).docs) = 1
    /\ ReadOf(store, reg, item.id).docs[1].page_content = item.text
    /\ ReadOf(store, reg, item.id).docs[1].metadata = item.meta

\* An add that returned normally, every command of it answered with success,
\* of items with fresh ids
IsCleanAdd(call, store) ==
    /\ call.op = "add_texts"
    /\ ~call.raised
    /\ AllOk(call.sent)
    /\ FreshIds(call.items, store)

\* The names a property may not have if it is to be read back as metadata
ReservedKeys == INVALID_DOC_METADATA_KEYS \cup {LANGCHAIN_ID_PROPERTY}

\* A document whose text is not empty and whose metadata has no reserved key,
\* no list value and no value the read path takes for a missing one
IsPlain(item) ==
    /\ item.text \notin {"", NoneValue}
    /\ DOMAIN item.meta \cap ReservedKeys = {}
    /\ \A key \in DOMAIN item.meta :
           item.meta[key] \notin INVALID_METADATA_VALUE \cup {ListValue}

\* C2 (amended). Round trip: documents with distinct fresh ids, a non-empty
\* text and metadata without reserved keys, list values or sentinel values are
\* read back by id with identical content and identical metadata.
C2_RoundTripOfPlainDocuments ==
    [][IsCleanAdd(last', descriptors) =>
          \A i \in 1..Len(last'.items) :
              IsPlain(Items[last'.items[i]]) =>
                  ReadsBack(descriptors', registry', Items[last'.items[i]])]_vars

\* C2 (as stated). Round trip for any text and any metadata map.
C2_RoundTripOfAnyDocument ==
    [][IsCleanAdd(last', descriptors) =>
          \A i \in 1..Len(last'.items) :
              ReadsBack(descriptors', registry', Items[last'.items[i]])]_vars

\* Two plain documents were added in one call and are both stored
C2_TwoPlainDocumentsAdded ==
    /\ last.op = "add_texts"
    /\ ~last.raised
    /\ AllOk(last.sent)
    /\ Len(last.items) = 2
    /\ \A i \in 1..2 : IsPlain(Items[last.items[i]])
    /\ last.before = 0
    /\ Len(descriptors) = 2
    /\ \A i \in 1..2 : ReadsBack(descriptors, registry, Items[last.items[i]])

C4_FetchKAtLeastKIsAccepted ==
    (last.op = "search" /\ last.fetch_k >= last.k) =>
        /\ last.filter = NoFilter => Sent(last, "FindDescriptorKNN")
        /\ last.filter # NoFilter => Sent(last, "FindDescriptor")

\* A search with fetch_k = k raised without sending a query
C4_EqualFetchKRejected ==
    /\ last.op = "search"
    /\ last.fetch_k = last.k
    /\ last.raised
    /\ ~Sent(last, "FindDescriptorKNN")
    /\ ~Sent(last, "FindDescriptor")

\* The ids of the descriptors that satisfy the filter
IdsSatisfying(store, filter) ==
    {store[n].props[LANGCHAIN_ID_PROPERTY] : n \in {m \in 1..Len(store) : Satisfies(store[m], filter)}}

\* The ids of the fetch_k descriptors nearest to the query, nearest first
NearestIds(store, q, fetch_k) ==
    LET top == Slice(NearestOrder(store, q, 1..Len(store)), 0, fetch_k)
    IN  [i \in 1..Len(top) |-> store[top[i]].props[LANGCHAIN_ID_PROPERTY]]

\* The subsequence of the fetch_k nearest whose ids satisfy the filter, cut
\* to its first k items
MatchingNearest(store, q, k, fetch_k, filter) ==
    Slice(SelectSeq(NearestIds(store, q, fetch_k),
                    LAMBDA id : id \in IdsSatisfying(store, filter)),
          0, k)

\* A search with a filter that matched some descriptor, both of its queries
\* answered with success
IsFilteredWalk(call) ==
    /\ call.op = "search"
    /\ call.filter # NoFilter
    /\ AllOk(call.sent)
    /\ Sent(call, "FindDescriptorKNN")

\* C5, the entity list: with a filter, the entities found are the subsequence
\* of the fetch_k nearest whose ids satisfy the filter, in the same order, cut
\* to the first k.
C5_FoundIsMatchingSubsequence ==
    IsFilteredWalk(last) =>
        last.found = MatchingNearest(descriptors, Embed(last.query), last.k, last.fetch_k,
                                     last.filter)

\* C5. Filtered search result: the entity list is that subsequence, and when
\* fewer than k match, the partial list is returned without raising.
C5_FilteredSearchResult ==
    IsFilteredWalk(last) =>
        /\ last.found = MatchingNearest(descriptors, Embed(last.query), last.k, last.fetch_k,
                                        last.filter)
        /\ ~last.raised

\* A filtered search raised although the filter matched a descriptor and both
\* queries were answered: none of the fetch_k nearest matched
C5_RaisedOnEmptyPartialList ==
    /\ IsFilteredWalk(last)
    /\ IdsSatisfying(descriptors, last.filter) # {}
    /\ last.found = <<>>
    /\ last.raised

\* A search the parameter check lets through in which the filter matches no
\* descriptor, or a command is answered with FailedCommand, or the collection
\* has no descriptor to return
IsQuietCase(call, store) ==
    /\ call.op = "search"
    /\ call.fetch_k > call.k
    /\ \/ call.filter # NoFilter /\ IdsSatisfying(store, call.filter) = {}
       \/ ~AllOk(call.sent)
       \/ store = <<>>

\* C6. Reads fail quietly: when the filter matches no descriptor, or the
\* server answers a command of the search with FailedCommand or with no
\* entities, the search returns an empty list and does not raise.
C6_ReadsFailQuietly ==
    IsQuietCase(last, descriptors) => (~last.raised /\ last.ret = <<>>)

\* A search raised because its filter matched no descriptor of a collection
\* that holds some
C6_RaisedOnUnmatchedFilter ==
    /\ IsQuietCase(last, descriptors)
    /\ descriptors # <<>>
    /\ AllOk(last.sent)
    /\ last.raised

\* The i-th command of the call is an AddDescriptor the server answered with
\* one of these replies
AddAnswered(call, i, replies) ==
    /\ call.sent[i].cmd = "AddDescriptor"
    /\ call.sent[i].reply \in replies

\* C7. Writes fail loudly: when the server does not persist a window of a
\* bulk add (a non-zero status, or a failed command), the add raises and
\* sends no later window.
C7_WritesFailLoudly ==
    last.op = "add_texts" =>
        \A i \in 1..Len(last.sent) :
            AddAnswered(last, i, {"status", "failed"}) =>
                /\ last.raised
                /\ \A j \in (i + 1)..Len(last.sent) : last.sent[j].cmd # "AddDescriptor"

\* A bulk add returned normally, with the ids of its second window only,
\* after its first window was not persisted
C7_ReturnedAfterLostWindow ==
    /\ last.op = "add_texts"
    /\ Len(last.items) = 2
    /\ AddAnswered(last, 1, {"status", "failed"})
    /\ AddAnswered(last, 2, {"ok"})
    /\ ~last.raised
    /\ Len(last.ret) = 1

\* C8. Overflow recovery: when the server answers a window of two or more
\* items with OutOfJournalSpace, the items of the window are sent again, as
\* two halves.
C8_OverflowRecovery ==
    last.op = "add_texts" =>
        \A i \in 1..Len(last.sent) :
            (AddAnswered(last, i, {"journal"}) /\ last.sent[i].n >= 2) =>
                /\ Len(last.sent) >= i + 2
                /\ last.sent[i + 1].cmd = "AddDescriptor"
                /\ last.sent[i + 2].cmd = "AddDescriptor"
                /\ last.sent[i + 1].n + last.sent[i + 2].n = last.sent[i].n

\* An add raised on OutOfJournalSpace for a window of two items without
\* sending anything after it
C8_RaisedWithoutRetry ==
    /\ last.op = "add_texts"
    /\ last.sent # <<>>
    /\ AddAnswered(last, Len(last.sent), {"journal"})
    /\ last.sent[Len(last.sent)].n = 2
    /\ last.raised

\* The property names the items of an add register
PropsOf(idxs) ==
    UNION {DOMAIN get_props_from_metadata(Items[idxs[i]].text,
                                          validate_vdms_properties(Items[idxs[i]].meta),
                                          Items[idxs[i]].id) : i \in 1..Len(idxs)}

\* An add that returned normally, every command of it answered with success
IsAdd(call) ==
    /\ call.op = "add_texts"
    /\ ~call.raised
    /\ AllOk(call.sent)

\* C9 (amended). Schema monotonicity: an add leaves the known properties the
\* sorted union, without duplicates, of those known before and those of its
\* items; when all of them were known already the list is unchanged, and no
\* registry push is sent provided the registry holds every known property.
C9_SchemaMonotonicity ==
    [][IsAdd(last') =>
          /\ collection_properties'
                 = SortedList(Range(collection_properties) \cup PropsOf(last'.items))
          /\ PropsOf(last'.items) \subseteq Range(collection_properties) =>
                 /\ collection_properties' = collection_properties
                 /\ Range(collection_properties) \subseteq Range(get_properties(registry)) =>
                        ~Sent(last', "UpdateProperties")]_vars

\* C9 (as stated). Registering properties that are all known already leaves
\* the list unchanged and sends no registry push.
C9_NoPushWhenAllKnown ==
    [][(IsAdd(last') /\ PropsOf(last'.items) \subseteq Range(collection_properties)) =>
          /\ collection_properties' = collection_properties
          /\ ~Sent(last', "UpdateProperties")]_vars

\* A second add registered a property next to one an earlier add registered,
\* and pushed the registry
C9_SecondSetRegistered ==
    /\ IsAdd(last)
    /\ last.items = <<2>>
    /\ last.before > 0
    /\ {"bar", "baz"} \subseteq Range(collection_properties)
    /\ Sent(last, "UpdateProperties")

\* C10. The known properties are append-only: no step removes a property
\* from the client's list.
C10_KnownPropertiesNeverShrink ==
    [][Range(collection_properties) \subseteq Range(collection_properties')]_vars

\* After a search the client no longer knows a property that a descriptor it
\* stored carries
C10_StoredPropertyForgotten ==
    /\ last.op = "search"
    /\ \E n \in 1..Len(descriptors) :
           ~(DOMAIN descriptors[n].props \subseteq Range(collection_properties))

\* The registry holds a property the client does not know
BackendAhead(known, reg) == ~(Range(get_properties(reg)) \subseteq Range(known))

\* The client knows a property the registry does not hold
ClientAhead(known, reg) == ~(Range(known) \subseteq Range(get_properties(reg)))

\* C11. Schema sync before read: a search compares the known properties with
\* the registry before it builds its query; when the registry holds a property
\* the client does not know the client adopts the registry's list, and when
\* the client is ahead it pushes.
C11_SchemaSyncBeforeRead ==
    [][last'.op = "search" =>
          /\ BackendAhead(collection_properties, registry) =>
                 collection_properties' = get_properties(registry)
          /\ (ClientAhead(collection_properties, registry)
                /\ ~BackendAhead(collection_properties, registry)) =>
                 Sent(last', "UpdateProperties")]_vars

\* A search ran its nearest-neighbor query while the registry held a property
\* the client did not know, and the client still does not know it
C11_SearchedWithStaleProperties ==
    /\ last.op = "search"
    /\ AllOk(last.sent)
    /\ Sent(last, "FindDescriptorKNN")
    /\ ~Sent(last, "FindEntity")
    /\ BackendAhead(collection_properties, registry)

\* The keys of the items of an add as the caller gave them
KeysOf(idxs) == UNION {DOMAIN Items[idxs[i]].meta : i \in 1..Len(idxs)}

\* Every registry update the call sent was carried out by the server
PushCarriedOut(call) ==
    \A i \in 1..Len(call.sent) :
        call.sent[i].cmd = "UpdateProperties" => call.sent[i].reply = "ok"

IsMMR(entry) ==
    entry \in {"max_marginal_relevance_search", "max_marginal_relevance_search_with_score"}

\* The documents of what a search returned: the searches with scores return
\* (Document, score) pairs
DocsOf(entry, ret) ==
    IF entry \in {"similarity_search", "max_marginal_relevance_search"} THEN ret
    ELSE [i \in 1..Len(ret) |-> ret[i].doc]

\* What the search method entry returns for the arguments of the call. A
\* search leaves the collection and the registry as they were and the known
\* properties as its query listed them, so the state after the call gives the
\* result of the call again.
ResultOf(entry, call) ==
    search(entry, collection_properties, updated_properties_flag, registry, descriptors,
           call.query, call.k, call.fetch_k, call.filter, call.lambda_mult, call.plan)

\* What query_by_embeddings hands to the MMR search of the call: the entities
\* and, in response_array, their embeddings
PoolOf(call) ==
    query_by_embeddings(collection_properties, updated_properties_flag, registry, descriptors,
                        Embed(call.query), call.k, call.fetch_k, call.filter, TRUE, FALSE,
                        call.plan)

\* An MMR search that returned normally
IsMMRResult(call) ==
    /\ call.op = "search"
    /\ IsMMR(call.entry)
    /\ ~call.raised

\* C13. MMR boundary: with lambda_mult = 1 the MMR search returns the
\* documents of the plain nearest-neighbor search for k, in the same order;
\* for any lambda_mult it returns min(k, number of candidates) documents, the
\* candidates being the documents projected from the response.
C13_MMRBoundary ==
    IsMMRResult(last) =>
        /\ Len(last.ret)
               = Min(last.k, Len(results2documents(PoolOf(last).response)))
        /\ last.lambda_mult = 2 =>
               /\ DocsOf(last.entry, last.ret)
                      = DocsOf("similarity_search_with_score",
                               ResultOf("similarity_search_with_score", last).ret)
               /\ last.entry = "max_marginal_relevance_search_with_score" =>
                      last.ret = ResultOf("similarity_search_with_score", last).ret
               /\ ~ResultOf("similarity_search", last).raised =>
                      DocsOf(last.entry, last.ret) = ResultOf("similarity_search", last).ret

\* An MMR search with lambda_mult = 1 returned two documents, the two the
\* plain search returns
C13_TwoDocumentsAtLambdaOne ==
    /\ IsMMRResult(last)
    /\ last.lambda_mult = 2
    /\ last.k = 2
    /\ Len(last.ret) = 2
    /\ ~ResultOf("similarity_search", last).raised
    /\ DocsOf(last.entry, last.ret) = ResultOf("similarity_search", last).ret

\* The positions maximal_marginal_relevance selects for the call, in the
\* order it selects them
SelectionOf(call) ==
    maximal_marginal_relevance(Embed(call.query), PoolOf(call).response_array, call.k,
                               call.lambda_mult, <<>>)

\* Every embedding handed to MMR has its document among the candidates
IsAlignedPool(call) ==
    Len(results2documents(PoolOf(call).response)) = Len(PoolOf(call).response_array)

\* C14. MMR output order: the documents an MMR search returns are in the
\* order of the greedy selection, the first document picked first.
C14_OutputInSelectionOrder ==
    (IsMMRResult(last) /\ IsAlignedPool(last)) =>
        DocsOf(last.entry, last.ret)
            = [j \in 1..Len(SelectionOf(last)) |->
                  results2documents(PoolOf(last).response)[SelectionOf(last)[j]]]

\* An MMR search picked the second candidate first and returned the first
\* candidate first
C14_ReturnedInDistanceOrder ==
    /\ IsMMRResult(last)
    /\ IsAlignedPool(last)
    /\ SelectionOf(last) = <<2, 1>>
    /\ DocsOf(last.entry, last.ret) = results2documents(PoolOf(last).response)

\* C15. MMR candidate pool: an MMR search without a filter hands the
\* fetch_k nearest documents, min(fetch_k, number stored) of them, to the MMR
\* algorithm; the pool is not cut to k.
C15_PoolHoldsFetchKCandidates ==
    (IsMMRResult(last) /\ AllOk(last.sent) /\ last.filter = NoFilter
        /\ last.fetch_k > last.k) =>
        Len(PoolOf(last).response_array) = Min(last.fetch_k, Len(descriptors))

\* An MMR search for k = 1 with fetch_k = 2 over two or more documents handed
\* one embedding to the MMR algorithm
C15_PoolCutToK ==
    /\ IsMMRResult(last)
    /\ AllOk(last.sent)
    /\ last.filter = NoFilter
    /\ last.k = 1
    /\ last.fetch_k = 2
    /\ Len(descriptors) >= 2
    /\ Len(PoolOf(last).response_array) = 1

\* The (Document, distance) pairs of the call with the distances as the
\* server reported them
RawOf(call) == ResultOf("similarity_search_with_score", call).ret

\* The smallest and the largest of the distances of the pairs
MinDist(pairs) ==
    CHOOSE m \in {pairs[i].dist : i \in 1..Len(pairs)} :
        \A i \in 1..Len(pairs) : m <= pairs[i].dist

MaxDist(pairs) ==
    CHOOSE m \in {pairs[i].dist : i \in 1..Len(pairs)} :
        \A i \in 1..Len(pairs) : pairs[i].dist <= m

\* A search with relevance scores all of whose candidates came back as
\* documents, every command answered with success. The score returned is
\* 1 - the normalized distance, so the normalized distance of ret[i] is the
\* fraction (scale - dist) / scale.
IsNormalized(call) ==
    /\ call.op = "search"
    /\ call.entry = "similarity_search_with_relevance_scores"
    /\ AllOk(call.sent)
    /\ RawOf(call) # <<>>
    /\ Len(RawOf(call)) = Len(call.found)

\* C16. Normalization: each returned distance d is mapped to
\* (d - min) / (max - min), min and max the smallest and largest distance of
\* the returned candidates.
C16_NormalizedBetweenMinAndMax ==
    (IsNormalized(last) /\ MinDist(RawOf(last)) < MaxDist(RawOf(last))) =>
        /\ ~last.raised
        /\ Len(last.ret) = Len(RawOf(last))
        /\ \A i \in 1..Len(last.ret) :
               (last.ret[i].scale - last.ret[i].dist)
                       * (MaxDist(RawOf(last)) - MinDist(RawOf(last)))
                   = (RawOf(last)[i].dist - MinDist(RawOf(last))) * last.ret[i].scale

\* The closest of two candidates at different distances was not mapped to 0
C16_ClosestNotMappedToZero ==
    /\ IsNormalized(last)
    /\ ~last.raised
    /\ Len(last.ret) = 2
    /\ RawOf(last)[1].dist < RawOf(last)[2].dist
    /\ last.ret[1].dist # last.ret[1].scale

\* C17. Degenerate normalization: when all returned candidates have the same
\* distance, a single candidate included, the search does not raise and every
\* distance is mapped to the value a common distance of 0 is mapped to,
\* whatever the common distance is.
C17_DegenerateRuleIsOneValue ==
    (IsNormalized(last) /\ MinDist(RawOf(last)) = MaxDist(RawOf(last))) =>
        /\ ~last.raised
        /\ Len(last.ret) = Len(RawOf(last))
        /\ \A i \in 1..Len(last.ret) :
               (last.ret[i].scale - last.ret[i].dist)
                       * normalize(<<[dist |-> 0, scale |-> 1]>>)[1].scale
                   = normalize(<<[dist |-> 0, scale |-> 1]>>)[1].dist * last.ret[i].scale

\* A single candidate at a distance other than 0 was mapped to 1, where a
\* single candidate at distance 0 is mapped to 0
C17_CommonDistanceDecides ==
    /\ IsNormalized(last)
    /\ ~last.raised
    /\ Len(last.ret) = 1
    /\ RawOf(last)[1].dist > 0
    /\ last.ret[1].dist = 0
    /\ normalize(<<[dist |-> 0, scale |-> 1]>>)[1].dist = 0

\* The Documents a read handed to its caller
ReturnedDocs(call) ==
    IF call.op = "search" THEN DocsOf(call.entry, call.ret)
    ELSE IF call.op \in {"get_by_ids", "get_by_constraints"} THEN call.ret
    ELSE <<>>

\* The ids stored in the collection
StoredIds == {descriptors[n].props[LANGCHAIN_ID_PROPERTY] : n \in 1..Len(descriptors)}

AllowedIds(item) ==
    IF item.id # NoneValue THEN {item.id}
    ELSE IF LANGCHAIN_ID_PROPERTY \in DOMAIN item.meta THEN {item.meta[LANGCHAIN_ID_PROPERTY]}
    ELSE IF "id" \in DOMAIN item.meta THEN {item.meta["id"]}
    ELSE Range(Uuids)

\* C19. Id precedence on add: the identity persisted for an item is the id
\* given for it, otherwise the id found in its metadata, otherwise a generated
\* UUID; the id returned for the item is the identity persisted.
C19_IdPrecedence ==
    [][IsAdd(last') =>
          \A i \in 1..Len(last'.items) :
              /\ descriptors'[last'.before + i].props[LANGCHAIN_ID_PROPERTY]
                     \in AllowedIds(Items[last'.items[i]])
              /\ last'.ret[i] = descriptors'[last'.before + i].props[LANGCHAIN_ID_PROPERTY]]_vars

\* An item added without ids whose metadata holds an id was persisted under a
\* generated UUID
C19_MetadataIdIgnored ==
    /\ IsAdd(last)
    /\ Len(last.items) = 1
    /\ Items[last.items[1]].id = NoneValue
    /\ "id" \in DOMAIN Items[last.items[1]].meta
    /\ descriptors[Len(descriptors)].props["id"] = Items[last.items[1]].meta["id"]
    /\ descriptors[Len(descriptors)].props[LANGCHAIN_ID_PROPERTY] \in Range(Uuids)
    /\ last.ret = <<descriptors[Len(descriptors)].props[LANGCHAIN_ID_PROPERTY]>>

\* The entities of the response the search of the call works on
EntitiesOf(call) ==
    IF PoolOf(call).response = <<>> THEN <<>>
    ELSE PoolOf(call).response[1].entities

\* The Documents of the entities that have a content key
WellFormedDocs(entities) ==
    documents_of(SelectSeq(entities, LAMBDA e : TEXT_PROPERTY \in DOMAIN e.f)).docs

\* A search whose response has an entity without a content key, every command
\* answered with success
HasMalformedRecord(call) ==
    /\ call.op = "search"
    /\ AllOk(call.sent)
    /\ \E i \in 1..Len(EntitiesOf(call)) : TEXT_PROPERTY \notin DOMAIN EntitiesOf(call)[i].f

\* C20. Malformed records are dropped: when the result list has a record
\* without the content key, the search does not raise and returns the
\* Documents of the other records of the list.
C20_MalformedRecordsDropped ==
    HasMalformedRecord(last) =>
        /\ ~last.raised
        /\ DocsOf(last.entry, last.ret) = WellFormedDocs(EntitiesOf(last))

\* A search returned nothing although a record with content came after the
\* record without content in its result list
C20_WellFormedRecordLost ==
    /\ HasMalformedRecord(last)
    /\ ~last.raised
    /\ last.ret = <<>>
    /\ WellFormedDocs(EntitiesOf(last)) # <<>>

----------------------------------------------------------------------------
(* delete's returned value *)

\* The flag-for-deletion commands of a delete call
FlagCommands(call) == SelectSeq(call.sent, LAMBDA c : c.cmd = "FindDescriptorDelete")

\* A delete call of which a flag-for-deletion command failed
IsFailedDelete(call) ==
    /\ call.op = "delete"
    /\ ~AllOk(FlagCommands(call))

\* C21. delete returns False when the backend's flag-for-deletion commands
\* fail, and True when the deletion is successful.
C21_DeleteReportsFailure ==
    (last.op = "delete") => (last.ret = <<AllOk(FlagCommands(last))>>)

\* A delete whose only flag-for-deletion command failed, which left every
\* descriptor in place, returned True
C21_TrueAfterFailedDeletion ==
    /\ IsFailedDelete(last)
    /\ Len(FlagCommands(last)) = 1
    /\ Len(descriptors) = last.before
    /\ \E i \in 1..Len(descriptors) :
           descriptors[i].props[LANGCHAIN_ID_PROPERTY] \in Range(last.ids)
    /\ last.ret = <<TRUE>>

----------------------------------------------------------------------------
(* VDMS: constructing a store *)

\* The server's reply to AddDescriptorSet: status 0 when it creates the set,
\* a non-zero status when the set exists, FailedCommand when it fails
AddSetReply(exists, resp) ==
    IF resp = "failed" THEN [cmd |-> "FailedCommand", status |-> -1]
    ELSE [cmd |-> "AddDescriptorSet", status |-> IF exists THEN 2 ELSE 0]

\* A creation that takes only status 0 for success
create_only(exists, resp) ==
    LET response == AddSetReply(exists, resp)
    IN  [raised |-> response.cmd = "FailedCommand" \/ response.status # 0,
         status |-> IF response.cmd # "FailedCommand" /\ response.status = 0
                    THEN "created" ELSE "exists",
         exists |-> exists \/ response.cmd = "AddDescriptorSet",
         sent |-> <<Cmd("AddDescriptorSet", 0, resp)>>]

\* _create_collection: one AddDescriptorSet; FailedCommand raises, status 0 is
\* logged as "created" and every other status as "exists"
_create_collection(exists, resp) ==
    LET response == AddSetReply(exists, resp)
    IN  [raised |-> response.cmd = "FailedCommand",
         status |-> IF response.cmd # "FailedCommand" /\ response.status = 0
                    THEN "created" ELSE "exists",
         exists |-> exists \/ response.cmd = "AddDescriptorSet",
         sent |-> <<Cmd("AddDescriptorSet", 0, resp)>>]

\* _check_required_inputs, lines 1519-1529, on a new object: the properties
\* of the registry, sorted
_check_required_inputs(reg) == SortNames(get_properties(reg))

\* VDMS.__init__: the properties are read, the flag is cleared and the
\* collection is created
VDMS_init(reg, exists, resp) ==
    LET c == _create_collection(exists, resp)
    IN  [raised |-> c.raised, status |-> c.status, exists |-> c.exists,
         known |-> _check_required_inputs(reg), flag |-> FALSE,
         sent |-> <<Cmd("FindEntity", 0, "ok")>> \o c.sent]

\* The caller holds a store: a constructed store knows the default properties
HasStore == collection_properties # <<>>

\* VDMS(client, embedding=..., collection_name=...): the caller keeps the
\* store it had when the constructor raises
Construct(resp) ==
    /\ last = NoCall
    /\ \E r \in {VDMS_init(registry, descriptor_set, resp)} :
           /\ descriptor_set' = r.exists
           /\ collection_properties' = IF r.raised THEN collection_properties ELSE r.known
           /\ updated_properties_flag' = IF r.raised THEN updated_properties_flag ELSE r.flag
           /\ last' = [NoCall EXCEPT !.op = "__init__", !.plan = resp, !.raised = r.raised,
                                     !.ret = IF r.raised THEN <<>> ELSE <<r.status>>,
                                     !.sent = r.sent]
    /\ UNCHANGED <<descriptors, registry, clients>>

\* A server without the collection and a caller without a store
InitNew ==
    /\ descriptors = <<>>
    /\ registry = <<>>
    /\ collection_properties = <<>>
    /\ updated_properties_flag = FALSE
    /\ last = NoCall
    /\ descriptor_set = FALSE
    /\ clients = NoClients

----------------------------------------------------------------------------
(* VDMS: add_documents, update_documents and from_texts *)

\* The ids keyword of a call: ids=None, or a list of ids
NoIds == [given |-> FALSE, ids |-> <<>>]
GivenIds(ids) == [given |-> TRUE, ids |-> ids]

\* The number of generated identifiers the collection holds: uuid4 never
\* returns one of them again
GeneratedIn(store) ==
    LET used == {i \in 1..Len(Uuids) :
                    \E j \in 1..Len(store) : store[j].props[LANGCHAIN_ID_PROPERTY] = Uuids[i]}
    IN  IF used = {} THEN 0 ELSE CHOOSE m \in used : \A x \in used : x <= m

\* add_documents, lines 711-741: the ids of the call when it gives them;
\* else the id of each document, or the "id" of its metadata, or a UUID
document_ids(documents, ids_kw, generated) ==
    IF ids_kw.given THEN ids_kw.ids
    ELSE [i \in 1..Len(documents) |->
             IF documents[i].id # NoneValue THEN documents[i].id
             ELSE IF "id" \in DOMAIN documents[i].meta THEN documents[i].meta["id"]
             ELSE Uuids[generated + i]]

\* The ids of the Documents that have one
RECURSIVE ids_of(_)
ids_of(docs) ==
    IF docs = <<>> THEN <<>>
    ELSE (IF Head(docs).id \notin {NoneValue, ""} THEN <<Head(docs).id>> ELSE <<>>)
         \o ids_of(Tail(docs))

\* The positions of the ids that are not in remove_ids, in order
RECURSIVE valid_positions(_, _, _)
valid_positions(ids, remove_ids, i) ==
    IF i > Len(ids) THEN <<>>
    ELSE (IF ids[i] \notin Range(remove_ids) THEN <<i>> ELSE <<>>)
         \o valid_positions(ids, remove_ids, i + 1)

\* No fault in any step of a call that reads, deletes and adds
NoFaults == [init |-> "ok", get |-> "ok", del |-> NoFault, add |-> NoFault, push |-> "ok"]

\* add_documents, lines 754-761: the documents whose id is not in remove_ids,
\* each with its id
valid_documents(documents, ids, remove_ids) ==
    [i \in 1..Len(valid_positions(ids, remove_ids, 1)) |->
        [id |-> ids[valid_positions(ids, remove_ids, 1)[i]],
         text |-> documents[valid_positions(ids, remove_ids, 1)[i]].text,
         meta |-> documents[valid_positions(ids, remove_ids, 1)[i]].meta]]

\* add_documents, lines 754-764: the valid documents are added with add_texts;
\* sent are the commands the call has sent so far
add_valid(known, store, reg, flag, documents, ids, remove_ids, batch_size, faults, sent) ==
    CHOOSE r \in {[add_from(known, store, reg, flag, valid, batch_size, faults.add,
                            faults.push)
                      EXCEPT !.sent = sent \o @] :
                  valid \in {add_embeddings_inputs(valid_documents(documents, ids, remove_ids),
                                                   GeneratedIn(store))}} : TRUE

\* add_documents, lines 744-764: the ids found stored are deleted when
\* delete_existing, else they are the ids to leave out
remove_stored(known, store, reg, flag, documents, ids, delete_existing, batch_size, faults, found) ==
    IF found.raised
    THEN [raised |-> TRUE, ids |-> <<>>, known |-> known, store |-> store,
          registry |-> reg, flag |-> flag, sent |-> found.sent]
    ELSE CHOOSE r \in {add_valid(known, d.store, reg, flag, documents, ids,
                                 IF delete_existing THEN <<>> ELSE ids_of(found.docs),
                                 batch_size, faults, found.sent \o d.sent) :
                       d \in {IF Len(ids_of(found.docs)) > 0 /\ delete_existing
                              THEN delete(store, ids_of(found.docs), batch_size, faults.del)
                              ELSE [store |-> store, sent |-> <<>>]}} : TRUE

\* add_documents, lines 743-764 (the same statements as from_texts, lines
\* 625-651): the stored ids among ids are deleted when delete_existing, else
\* their documents are left out; the other documents are added with add_texts
add_unless_stored(known, store, reg, flag, documents, ids, delete_existing, batch_size, faults) ==
    CHOOSE r \in {remove_stored(known, store, reg, flag, documents, ids, delete_existing,
                                batch_size, faults, found) :
                  found \in {get_by_ids(store, reg, ids, faults.get)}} : TRUE

\* add_documents(documents, ids=..., delete_existing=..., batch_size=...)
add_documents(known, store, reg, flag, documents, ids_kw, delete_existing, batch_size, faults) ==
    IF ids_kw.given /\ ids_kw.ids # <<>> /\ Len(ids_kw.ids) # Len(documents)
    THEN [raised |-> TRUE, ids |-> <<>>, known |-> known, store |-> store,
          registry |-> reg, flag |-> flag, sent |-> <<>>]
    ELSE CHOOSE x \in {add_unless_stored(known, store, reg, flag, documents_, ids,
                                         delete_existing, batch_size, faults) :
                       documents_ \in {Slice(documents, 0,
                                             IF ids_kw.given THEN Len(ids_kw.ids)
                                             ELSE Len(documents))},
                       ids \in {document_ids(documents, ids_kw, GeneratedIn(store))}} : TRUE

\* update_documents(ids, documents): add_documents with delete_existing=True
update_documents(known, store, reg, flag, ids, documents, batch_size, faults) ==
    add_documents(known, store, reg, flag, documents, GivenIds(ids), TRUE, batch_size, faults)

\* from_texts, lines 619-651, after the store is constructed (init): ids is
\* read from kwargs and left in it, so that with an ids keyword the call
\* delete(ids=remove_ids, **kwargs) or add_texts(..., ids=valid_ids, **kwargs)
\* is given ids twice and raises TypeError; without it the ids are UUIDs
from_texts(reg, store, init, items, ids, ids_given, delete_existing, batch_size, faults) ==
    LET unchanged(sent) ==
            [raised |-> TRUE, ids |-> <<>>, known |-> init.known, store |-> store,
             registry |-> reg, flag |-> init.flag, sent |-> sent]
    IN  IF init.raised \/ Len(ids) # Len(items) THEN unchanged(init.sent)
        ELSE IF ids_given
        THEN unchanged(init.sent \o get_by_ids(store, reg, ids, faults.get).sent)
        ELSE [add_unless_stored(init.known, store, reg, init.flag, items, ids,
                                delete_existing, batch_size, faults)
                 EXCEPT !.sent = init.sent \o @]

\* The faults of one call: none, or the failure of one of its steps
DocFaults ==
    {NoFaults, [NoFaults EXCEPT !.init = "failed"], [NoFaults EXCEPT !.get = "failed"],
     [NoFaults EXCEPT !.del = [w |-> 1, kind |-> "failed"]]}

\* add_documents(documents, ids=..., delete_existing=..., batch_size=...)
AddDocuments(idxs, ids_kw, delete_existing, batch_size, faults) ==
    /\ last = NoCall
    /\ HasStore
    /\ Len(descriptors) + Len(idxs) <= MaxStore
    /\ \E r \in {add_documents(collection_properties, descriptors, registry,
                               updated_properties_flag,
                               [i \in 1..Len(idxs) |-> Items[idxs[i]]],
                               ids_kw, delete_existing, batch_size, faults)} :
           /\ descriptors' = r.store
           /\ registry' = r.registry
           /\ collection_properties' = r.known
           /\ updated_properties_flag' = r.flag
           /\ last' = [NoCall EXCEPT !.op = "add_documents", !.items = idxs,
                                     !.ids = document_ids([i \in 1..Len(idxs) |-> Items[idxs[i]]],
                                                          ids_kw, GeneratedIn(descriptors)),
                                     !.ids_given = ids_kw.given,
                                     !.delete_existing = delete_existing,
                                     !.batch_size = batch_size, !.before = Len(descriptors),
                                     !.raised = r.raised, !.ret = r.ids, !.sent = r.sent]
    /\ UNCHANGED <<descriptor_set, clients>>

\* update_documents(ids, documents, batch_size=...)
UpdateDocuments(ids, idxs, batch_size, faults) ==
    /\ last = NoCall
    /\ HasStore
    /\ Len(descriptors) + Len(idxs) <= MaxStore
    /\ \E r \in {update_documents(collection_properties, descriptors, registry,
                                  updated_properties_flag, ids,
                                  [i \in 1..Len(idxs) |-> Items[idxs[i]]],
                                  batch_size, faults)} :
           /\ descriptors' = r.store
           /\ registry' = r.registry
           /\ collection_properties' = r.known
           /\ updated_properties_flag' = r.flag
           /\ last' = [NoCall EXCEPT !.op = "update_documents", !.items = idxs, !.ids = ids,
                                     !.ids_given = TRUE, !.delete_existing = TRUE,
                                     !.batch_size = batch_size, !.before = Len(descriptors),
                                     !.raised = r.raised, !.ret = r.ids, !.sent = r.sent]
    /\ UNCHANGED <<descriptor_set, clients>>

\* VDMS.from_texts(texts, embedding, metadatas, ids=..., delete_existing=...,
\* batch_size=...): a store is constructed and the texts are added to it; the
\* caller takes the store the call returns, and keeps the store it had when
\* the call raises
FromTexts(idxs, ids_kw, delete_existing, batch_size, faults) ==
    /\ last = NoCall
    /\ Len(descriptors) + Len(idxs) <= MaxStore
    /\ \E init \in {VDMS_init(registry, descriptor_set, faults.init)},
          items \in {[i \in 1..Len(idxs) |-> Items[idxs[i]]]},
          ids \in {IF ids_kw.given THEN ids_kw.ids
                   ELSE [i \in 1..Len(idxs) |-> Uuids[GeneratedIn(descriptors) + i]]} :
          \E r \in {from_texts(registry, descriptors, init, items, ids, ids_kw.given,
                               delete_existing, batch_size, faults)} :
             /\ descriptors' = r.store
             /\ registry' = r.registry
             /\ descriptor_set' = init.exists
             /\ collection_properties' = IF r.raised THEN collection_properties ELSE r.known
             /\ updated_properties_flag' = IF r.raised THEN updated_properties_flag
                                           ELSE r.flag
             /\ last' = [NoCall EXCEPT !.op = "from_texts", !.items = idxs, !.ids = ids,
                                       !.ids_given = ids_kw.given,
                                       !.delete_existing = delete_existing,
                                       !.batch_size = batch_size,
                                       !.before = Len(descriptors),
                                       !.raised = r.raised, !.ret = r.ids, !.sent = r.sent]
    /\ UNCHANGED clients

\* The documents of the calls that add Documents, and the ids keywords
DocItems == {1, 4, 6}
DocIdLists == {<<"1">>, <<"1", "1">>, <<"1", "2">>}
IdKeywords(n) == {NoIds} \cup {GivenIds(ids) : ids \in {l \in DocIdLists : Len(l) = n}}


----------------------------------------------------------------------------
(* Adding Documents whose ids are stored *)

\* The descriptors whose identity is none of ids
Kept(store, ids) ==
    SelectSeq(store, LAMBDA d : d.props[LANGCHAIN_ID_PROPERTY] \notin Range(ids))

\* The identities of the descriptors, in order
IdentitiesOf(store) == [i \in 1..Len(store) |-> store[i].props[LANGCHAIN_ID_PROPERTY]]

\* A call that adds Documents, every command of it answered with success
IsDocumentAdd(call) ==
    /\ call.op \in {"add_documents", "from_texts"}
    /\ AllOk(call.sent)

\* C22. add_documents and from_texts with delete_existing=True delete every
\* stored document whose id matches and then add the new documents; with
\* delete_existing=False the stored documents are kept and the new documents
\* are added with the duplicate ids.
C22_DeleteExistingOrDuplicate ==
    [][IsDocumentAdd(last') =>
          LET base == IF last'.delete_existing THEN Kept(descriptors, last'.ids)
                      ELSE descriptors
          IN  /\ Slice(descriptors', 0, Len(base)) = base
              /\ IdentitiesOf(Slice(descriptors', Len(base), Len(descriptors'))) = last'.ids]_vars

\* add_documents with delete_existing=False returned without adding anything:
\* every id of the call was stored
C22_DuplicateSkipped ==
    /\ IsDocumentAdd(last)
    /\ last.op = "add_documents"
    /\ ~last.delete_existing
    /\ ~last.raised
    /\ last.ids # <<>>
    /\ \A i \in 1..Len(last.ids) : last.ids[i] \in Range(IdentitiesOf(descriptors))
    /\ Len(descriptors) = last.before
    /\ last.ret = <<>>

----------------------------------------------------------------------------
(* VDMS: similarity_search_with_score_by_vector *)

\* DEFAULT_K, the default of k in query_by_embeddings
DEFAULT_K == 3

\* similarity_search_with_score_by_vector: k is handed to query_by_embeddings
\* as n_results, a keyword query_by_embeddings does not have: it lands in
\* **kwargs and query_by_embeddings runs with its default k
similarity_search_with_score_by_vector(known, flag, reg, store, embedding, k, fetch_k, filter, plan) ==
    CHOOSE r \in {outcome(qr, qr.raised,
                          IF qr.raised THEN <<>> ELSE results2documents_and_scores(qr.response)) :
                  qr \in {query_by_embeddings(known, flag, reg, store, embedding, DEFAULT_K,
                                              fetch_k, filter, FALSE, FALSE, plan)}} : TRUE

\* similarity_search_with_score_by_vector(embedding, k=..., fetch_k=...)
SearchByVector(embedding, k, fetch_k, filter, plan) ==
    /\ last = NoCall
    /\ HasStore
    /\ \E r \in {similarity_search_with_score_by_vector(
                     collection_properties, updated_properties_flag, registry, descriptors,
                     embedding, k, fetch_k, filter, plan)} :
           /\ collection_properties' = r.known
           /\ updated_properties_flag' = r.flag
           /\ last' = [NoCall EXCEPT !.op = "search_by_vector", !.k = k, !.fetch_k = fetch_k,
                                     !.filter = filter, !.plan = plan,
                                     !.before = Len(descriptors),
                                     !.raised = r.raised, !.ret = r.ret, !.found = r.found,
                                     !.sent = r.sent]
    /\ UNCHANGED <<descriptors, registry, descriptor_set, clients>>

\* A caller that constructs stores and adds, updates, deletes and reads
\* Documents
NextDocs ==
    \/ \E resp \in {"ok", "failed"} : Construct(resp)
    \/ \E idxs \in ItemLists(DocItems), delete_existing \in BOOLEAN, faults \in DocFaults :
          \E ids_kw \in IdKeywords(Len(idxs)) :
             AddDocuments(idxs, ids_kw, delete_existing, MaxBatch, faults)
    \/ \E idxs \in ItemLists(DocItems), faults \in DocFaults :
          \E ids_kw \in IdKeywords(Len(idxs)) \ {NoIds} :
             UpdateDocuments(ids_kw.ids, idxs, MaxBatch, faults)
    \/ \E idxs \in ItemLists(DocItems), delete_existing \in BOOLEAN, faults \in DocFaults :
          \E ids_kw \in IdKeywords(Len(idxs)) :
             FromTexts(idxs, ids_kw, delete_existing, MaxBatch, faults)
    \/ \E ids \in DocIdLists : HasStore /\ Delete(ids, MaxBatch, NoFault)
    \/ \E ids \in DocIdLists : HasStore /\ GetByIds(ids, "ok")
    \/ \E query \in QueryTexts, k \in 1..MaxK, fetch_k \in 1..(DEFAULT_K + 1),
          plan \in SearchPlans(NoFilter) :
          SearchByVector(Embed(query), k, fetch_k, NoFilter, plan)
    \/ Return

SpecDocs == InitNew /\ [][NextDocs]_vars

----------------------------------------------------------------------------
(* The number of results of a search by vector *)

\* An unfiltered call of similarity_search_with_score_by_vector with
\* fetch_k >= k, every command of it answered with success
IsVectorSearch(call) ==
    /\ call.op = "search_by_vector"
    /\ call.filter = NoFilter
    /\ call.fetch_k >= call.k
    /\ AllOk(call.sent)

\* C23. similarity_search_with_score_by_vector(embedding, k, fetch_k) returns
\* min(k, number of available candidates) documents for the caller's k, for
\* every k with fetch_k >= k.
C23_ReturnsKOrAllCandidates ==
    IsVectorSearch(last) =>
        /\ ~last.raised
        /\ Len(last.ret) = Min(last.k, Len(descriptors))

\* A search by vector for k = 1 with fetch_k > DEFAULT_K returned two
\* documents
C23_MoreThanKReturned ==
    /\ IsVectorSearch(last)
    /\ last.k = 1
    /\ last.fetch_k > DEFAULT_K
    /\ ~last.raised
    /\ Len(last.ret) = 2

----------------------------------------------------------------------------
(* Constructing a store *)

\* The AddDescriptorSet commands of a call
CreateCommands(call) == SelectSeq(call.sent, LAMBDA c : c.cmd = "AddDescriptorSet")

\* C24. Collection creation is create-or-confirm-exists: constructing a store
\* sends one AddDescriptorSet command; a reply with status 0 (created) and a
\* reply with a non-zero status (already exists) both leave the store
\* constructed; a FailedCommand reply raises and no store is returned.
C24_CreateOrConfirmExists ==
    [][(last'.op = "__init__") =>
          /\ Len(CreateCommands(last')) = 1
          /\ last'.raised <=> (CreateCommands(last')[1].reply = "failed")
          /\ ~last'.raised =>
                /\ collection_properties' = get_properties(registry)
                /\ updated_properties_flag' = FALSE
                /\ descriptor_set'
                /\ last'.ret = IF descriptor_set THEN <<"exists">> ELSE <<"created">>
          /\ last'.raised =>
                UNCHANGED <<collection_properties, updated_properties_flag, descriptor_set>>]_vars

\* A store was constructed for a collection that existed: the reply had a
\* non-zero status
C24_ConstructedForExistingCollection ==
    /\ last.op = "__init__"
    /\ last.ret = <<"exists">>
    /\ ~last.raised
    /\ HasStore
    /\ descriptor_set

----------------------------------------------------------------------------
(* The windows of a bulk add *)

MaxWindowItems == 3   \* items of one bulk add of SpecWindows at most

\* The item lists of the bulk adds of SpecWindows: up to MaxWindowItems of
\* four items the caller gives an id for
WindowItemLists ==
    {s \in ListsUpTo(Len(Items), MaxWindowItems) : Range(s) \subseteq {1, 2, 3, 5}}

\* Bulk adds whose last window may hold fewer items than batch_size, with
\* every answer of the server to one window
NextWindows ==
    \/ \E idxs \in WindowItemLists, batch_size \in 1..MaxBatch :
          \E plan \in AddPlans(Windows(Len(idxs), batch_size)) :
             AddTexts(idxs, batch_size, plan, "ok")
    \/ Return

SpecWindows == Init /\ [][NextWindows]_vars

\* The items of an add_texts call as add_from receives them
AddedItems(call) ==
    add_embeddings_inputs([i \in 1..Len(call.items) |-> Items[call.items[i]]], call.before)

\* The AddDescriptor commands of a call
AddCommands(call) == SelectSeq(call.sent, LAMBDA c : c.cmd = "AddDescriptor")

\* The 0-based position in the item list of the j-th item of window w
PositionOf(call, w, j) == (w - 1) * call.batch_size + j

\* The ids of the items from position i on whose window the server accepted
RECURSIVE AcceptedIds(_, _)
AcceptedIds(call, i) ==
    IF i > Len(call.items) THEN <<>>
    ELSE (IF AddCommands(call)[((i - 1) \div call.batch_size) + 1].reply = "ok"
          THEN <<AddedItems(call)[i].id>> ELSE <<>>) \o AcceptedIds(call, i + 1)

\* C25: a bulk add of n items with batch_size >= 1 sends one AddDescriptor
\* command per window, in input order: window w carries the items at the
\* contiguous positions (w-1)*batch_size+1 .. min(w*batch_size, n), so the
\* windows are disjoint, hold at most batch_size items each and cover every
\* item exactly once (a call that raised has sent a prefix of the windows);
\* the returned id list is the concatenation, in input order, of the ids of
\* the windows the server accepted: the ids of all the items in input order
\* when it accepted every window
C25_BatchWindowing ==
    (last.op = "add_texts") =>
        LET n == Len(last.items)
            size(w) == Min(last.batch_size, n - (w - 1) * last.batch_size)
        IN  /\ last.batch_size >= 1
            /\ Len(last.adds) <= Windows(n, last.batch_size)
            /\ ~last.raised => Len(last.adds) = Windows(n, last.batch_size)
            /\ Len(AddCommands(last)) = Len(last.adds)
            /\ \A w \in 1..Len(last.adds) :
                  /\ Len(last.adds[w].properties) = size(w)
                  /\ size(w) \in 1..last.batch_size
                  /\ AddCommands(last)[w].n = size(w)
                  /\ \A j \in 1..size(w) :
                        last.adds[w].properties[j][LANGCHAIN_ID_PROPERTY]
                            = AddedItems(last)[PositionOf(last, w, j)].id
            /\ ~last.raised => last.ret = AcceptedIds(last, 1)
            /\ (~last.raised /\ AllOk(AddCommands(last))) =>
                  last.ret = [i \in 1..n |-> AddedItems(last)[i].id]

\* An add of three items with batch_size 2, accepted by the server: a window
\* of two items and a window of one were sent
C25_SeveralWindowsSent ==
    /\ last.op = "add_texts"
    /\ Len(last.items) = 3
    /\ last.batch_size = 2
    /\ Len(last.adds) = 2
    /\ Len(last.adds[1].properties) = 2
    /\ Len(last.adds[2].properties) = 1
    /\ AllOk(last.sent)
    /\ Len(last.ret) = 3

----------------------------------------------------------------------------
(* The blob of an add command *)

\* C26: every AddDescriptor command an add sends, whether or not the server
\* then answers with OutOfJournalSpace (the recovery sends no further add
\* command), carries as many vectors as property maps, and its j-th vector is
\* the embedding of the item its j-th property map was built from: the j-th
\* item of the command's own window
C26_VectorPropertyAlignment ==
    (last.op = "add_texts") =>
        /\ Len(AddCommands(last)) = Len(last.adds)
        /\ \A w \in 1..Len(last.adds) :
              /\ Len(last.adds[w].blob) = Len(last.adds[w].properties)
              /\ \A j \in 1..Len(last.adds[w].properties) :
                    /\ last.adds[w].properties[j] =
                           get_props_from_metadata(AddedItems(last)[PositionOf(last, w, j)].text,
                                                   AddedItems(last)[PositionOf(last, w, j)].meta,
                                                   AddedItems(last)[PositionOf(last, w, j)].id)
                    /\ last.adds[w].blob[j] =
                           Embed(AddedItems(last)[PositionOf(last, w, j)].text)

\* An add command that carries two items with different vectors has been sent
C26_TwoVectorsInOneCommand ==
    /\ last.op = "add_texts"
    /\ \E w \in 1..Len(last.adds) :
          /\ Len(last.adds[w].blob) = 2
          /\ last.adds[w].blob[1] # last.adds[w].blob[2]

----------------------------------------------------------------------------
(* VDMS: delete with ids=None *)

\* batch_delete with ids=None, lines 1757-1777: one query of one
\* FindDescriptor with the constraints (and _deletion == 1)
batch_delete_all(store, constraints, resp) ==
    [store |-> IF resp = "ok" THEN AfterDeletion(store, constraints) ELSE store,
     sent |-> <<Cmd("FindDescriptorDelete", 0, resp)>>]

\* delete(ids=None, constraints=...): batch_delete, then the storeIndex command
delete_by_constraints(store, constraints, resp) ==
    LET r == batch_delete_all(store, constraints, resp)
        new_response == [cmd |-> "FindDescriptor"]
    IN  [store |-> r.store,
         ret |-> (new_response.cmd = "FindDescriptor"),
         sent |-> r.sent \o <<Cmd("FindDescriptorSet", 0, "ok")>>]

\* delete(constraints=...) without ids
DeleteByConstraints(constraints, resp) ==
    /\ last = NoCall
    /\ \E r \in {delete_by_constraints(descriptors, constraints, resp)} :
           /\ descriptors' = r.store
           /\ last' = [NoCall EXCEPT !.op = "delete_by_constraints", !.filter = constraints,
                                     !.before = Len(descriptors),
                                     !.ret = <<r.ret>>, !.sent = r.sent]
    /\ UNCHANGED <<registry, collection_properties, updated_properties_flag, descriptor_set, clients>>

\* The deletes of a collection that adds fill: by id list (the empty list
\* too) and by constraints
NextDelete ==
    \/ \E idxs \in ItemLists(ItemsWithIds) : AddTexts(idxs, MaxBatch, NoFault, "ok")
    \/ \E ids \in IdLists \cup {<<>>}, batch_size \in 1..MaxBatch :
          \E plan \in DeletePlans(Windows(Len(ids), batch_size)) :
             Delete(ids, batch_size, plan)
    \/ \E constraints \in Filters, resp \in {"ok", "failed"} :
          DeleteByConstraints(constraints, resp)
    \/ Return

SpecDelete == Init /\ [][NextDelete]_vars

----------------------------------------------------------------------------
(* The order of the commands of a delete *)

\* C27: the commands of a delete are its flag-for-deletion requests followed
\* by exactly one storeIndex command, the last command of the call. With an id
\* list of n ids there is one flag request per window of batch_size ids, in
\* order, window w holding min(batch_size, n - (w-1)*batch_size) ids (none for
\* the empty list); with constraints alone there is exactly one flag request.
\* The storeIndex command is sent whatever the flag requests matched and
\* whatever the server answered to them
C27_DeleteProtocolOrder ==
    /\ (last.op = "delete") =>
          LET n == Len(last.ids)
              W == Windows(n, last.batch_size)
          IN  /\ Len(last.sent) = W + 1
              /\ \A w \in 1..W :
                    /\ last.sent[w].cmd = "FindDescriptorDelete"
                    /\ last.sent[w].n = Min(last.batch_size, n - (w - 1) * last.batch_size)
                    /\ last.sent[w].n \in 1..last.batch_size
              /\ last.sent[W + 1].cmd = "FindDescriptorSet"
    /\ (last.op = "delete_by_constraints") =>
          /\ Len(last.sent) = 2
          /\ last.sent[1].cmd = "FindDescriptorDelete"
          /\ last.sent[2].cmd = "FindDescriptorSet"

\* A delete of two ids in two windows that matched no descriptor of a
\* collection that holds some: the storeIndex command followed the two requests
C27_RebuildAfterNoMatch ==
    /\ last.op = "delete"
    /\ Len(last.ids) = 2
    /\ last.batch_size = 1
    /\ AllOk(last.sent)
    /\ last.before > 0
    /\ Len(descriptors) = last.before
    /\ Len(last.sent) = 3
    /\ last.sent[3].cmd = "FindDescriptorSet"

----------------------------------------------------------------------------
(* One descriptor per identity *)

\* No two descriptors of the store carry the same identity
UniqueIdentities(store) ==
    \A i, j \in 1..Len(store) :
        (/\ i # j
         /\ LANGCHAIN_ID_PROPERTY \in DOMAIN store[i].props
         /\ LANGCHAIN_ID_PROPERTY \in DOMAIN store[j].props)
            => store[i].props[LANGCHAIN_ID_PROPERTY] # store[j].props[LANGCHAIN_ID_PROPERTY]

\* C28: add_documents, update_documents and delete, with any id list and
\* either value of delete_existing, leave a collection in which no two
\* descriptors carry the same identity as one in which no two do, so that
\* get_by_ids of one id returns at most one Document
C28_IdentityUniqueness ==
    [][(/\ last'.op \in {"add_documents", "update_documents", "delete"}
        /\ UniqueIdentities(descriptors))
           => UniqueIdentities(descriptors')]_vars

\* An add_documents that the server answered with success throughout has
\* left two descriptors with the same identity
C28_TwoDescriptorsOfOneIdentity ==
    /\ last.op = "add_documents"
    /\ ~last.raised
    /\ AllOk(last.sent)
    /\ Len(last.ret) = 2
    /\ last.ret[1] = last.ret[2]
    /\ ~UniqueIdentities(descriptors)

----------------------------------------------------------------------------
(* The embeddings of a filtered search *)

MmrEntries == {"max_marginal_relevance_search", "max_marginal_relevance_search_with_score"}

\* The texts of the queries of the MMR searches
MmrQueryTexts == {"foo", "thud"}

\* MMR searches, with and without a filter, of a collection that adds fill
NextMmr ==
    \/ \E idxs \in ItemLists(ItemsWithIds) : AddTexts(idxs, MaxBatch, NoFault, "ok")
    \/ \E entry \in MmrEntries, query \in MmrQueryTexts, k \in 1..MaxK,
          fetch_k \in 1..MaxFetchK, filter \in Filters :
          \E plan \in SearchPlans(filter), lambda_mult \in Lambdas(entry) :
             Search(entry, query, k, fetch_k, filter, lambda_mult, plan)
    \/ Return

SpecMmr == Init /\ [][NextMmr]_vars

\* The i-th blob of the search is the embedding of a stored descriptor that
\* carries the identity of the i-th entity of the search
BlobOfEntity(call, store, i) ==
    \E n \in 1..Len(store) :
        /\ store[n].props[LANGCHAIN_ID_PROPERTY] = call.found[i]
        /\ store[n].emb = call.blobs[i]

\* C29: a search with a filter that requests the embeddings (the MMR
\* searches) returns as many blobs as entities, and its i-th blob is the
\* embedding of its i-th entity
C29_EmbeddingAlignment ==
    (/\ last.op = "search"
     /\ last.entry \in MmrEntries
     /\ last.filter # NoFilter
     /\ ~last.raised) =>
        /\ Len(last.blobs) = Len(last.found)
        /\ \A i \in 1..Len(last.found) : BlobOfEntity(last, descriptors, i)

\* A filtered MMR search, every command of it answered with success, has
\* returned an entity with a blob that is the embedding of no descriptor of
\* that identity
C29_BlobOfAnotherEntity ==
    /\ last.op = "search"
    /\ last.entry \in MmrEntries
    /\ last.filter # NoFilter
    /\ ~last.raised
    /\ AllOk(last.sent)
    /\ Len(last.found) = 1
    /\ Len(last.blobs) = 1
    /\ ~BlobOfEntity(last, descriptors, 1)

----------------------------------------------------------------------------
(* Two clients of one collection *)

Pushers == {"A", "B"}

\* The items each client adds: client A knows the property baz, client B the
\* property bar, and both add a document without metadata
ItemsOf(c) == IF c = "A" THEN {1, 3} ELSE {2, 3}

\* Two stores constructed on a server without a registry for the collection
InitPush ==
    /\ descriptors = <<>>
    /\ registry = <<>>
    /\ collection_properties = get_properties(<<>>)
    /\ updated_properties_flag = FALSE
    /\ last = NoCall
    /\ descriptor_set = TRUE
    /\ clients = [c \in Pushers |->
                     [pc |-> "idle", known |-> get_properties(<<>>), read |-> <<>>,
                      flag |-> FALSE]]

\* add_from of client c, lines 1596-1622: the windows are sent;
\* push_update_properties is to be called next
ClientAddWindows(c, idxs, batch_size) ==
    /\ clients[c].pc = "idle"
    /\ Len(descriptors) + Len(idxs) <= MaxStore
    /\ \E w \in {add_windows(add_embeddings_inputs([i \in 1..Len(idxs) |-> Items[idxs[i]]],
                                                   Len(descriptors)),
                             batch_size, NoFault, 0,
                             [ids |-> <<>>, raised |-> FALSE, known |-> clients[c].known,
                              sent |-> <<>>, adds |-> <<>>, store |-> descriptors])} :
           /\ descriptors' = w.store
           /\ clients' = [clients EXCEPT ![c].known = w.known, ![c].pc = "push"]
    /\ UNCHANGED <<registry, collection_properties, updated_properties_flag, last,
                   descriptor_set>>

\* push_update_properties of client c, line 1634: the query of get_properties
ClientReadRegistry(c) ==
    /\ clients[c].pc = "push"
    /\ clients' = [clients EXCEPT ![c].read = registry, ![c].pc = "update"]
    /\ UNCHANGED <<descriptors, registry, collection_properties, updated_properties_flag, last,
                   descriptor_set>>

\* push_update_properties of client c, lines 1635-1648: the update query, sent
\* when the list read lacks a property the client knows
ClientUpdateRegistry(c) ==
    /\ clients[c].pc = "update"
    /\ \E p \in {push_update_properties(clients[c].known, clients[c].read, clients[c].flag,
                                        "ok")} :
           /\ registry' = IF Len(p.sent) > 1
                          THEN AfterRegistryUpdate(registry, get_properties(p.registry))
                          ELSE registry
           /\ clients' = [clients EXCEPT ![c].flag = p.flag, ![c].pc = "idle"]
    /\ UNCHANGED <<descriptors, collection_properties, updated_properties_flag, last,
                   descriptor_set>>

NextPush ==
    \/ \E c \in Pushers, batch_size \in 1..MaxBatch :
          \E idxs \in ItemLists(ItemsOf(c)) : ClientAddWindows(c, idxs, batch_size)
    \/ \E c \in Pushers : ClientReadRegistry(c)
    \/ \E c \in Pushers : ClientUpdateRegistry(c)

SpecPush == InitPush /\ [][NextPush]_vars

----------------------------------------------------------------------------
(* The registry after concurrent pushes *)

\* No bulk add of a client is under way
PushesComplete == \A c \in Pushers : clients # NoClients /\ clients[c].pc = "idle"

\* C30: when the bulk adds of two clients that register different new
\* property names have both completed, however their pushes interleaved, the
\* registry holds every name either client registered
C30_ConcurrentSchemaPush ==
    (clients # NoClients /\ PushesComplete) =>
        \A c \in Pushers : Range(clients[c].known) \subseteq Range(get_properties(registry))

\* Both clients have added and pushed, each a property name of its own, and
\* the registry lacks the name of one of them
C30_NameLost ==
    /\ clients # NoClients
    /\ PushesComplete
    /\ "baz" \in Range(clients["A"].known)
    /\ "bar" \in Range(clients["B"].known)
    /\ clients["A"].flag
    /\ clients["B"].flag
    /\ ~({"bar", "baz"} \subseteq Range(get_properties(registry)))

====
